---- MODULE Spec2Model ----
(***************************************************************************)
(* The Sudoku component of src/app/sudoku.js as a state machine.           *)
(*                                                                         *)
(* JavaScript objects are shared by reference: {...config} and [...cells]  *)
(* copy one level only, so the cell objects of a grid are shared between   *)
(* the live document and the snapshots kept in the undo history.  Cell     *)
(* objects are only ever created a whole grid at a time (resetGroups, the  *)
(* JSON deep copy of clearGuess, JSON.parse in load), and rows and outer   *)
(* arrays are never mutated after they are shared, so the heap is a map    *)
(* from grid identities to grids and config.cells is a grid identity.      *)
(*                                                                         *)
(* Strings typed into cells are sequences of characters; a character is a  *)
(* small integer standing for the digit of that value.  Indices are        *)
(* 0-based as in the source, except for TLA+ sequences (groups, guesses,   *)
(* undoHistory), which are 1-based: element i of the source is [i + 1].    *)
(***************************************************************************)
EXTENDS Integers, Sequences, FiniteSets, TLC

VARIABLES
    config,           \* useState config: the document (cells is a grid identity)
    heap,             \* grid identity -> grid of cell objects
    currGuess,        \* useState currGuess
    chooseCells,      \* useState chooseCells: -1 is undefined, else a group index
    selectedCells,    \* useState selectedCells
    choosingForGroup, \* SudokuControls useState choosingForGroup: -1 is undefined
    validationState,  \* useState validationState: "none" is undefined
    timerStarted,     \* useState timerStarted
    inFocus,          \* useState inFocus
    undoHistory,      \* useState undoHistory
    undoIndex,        \* useState undoIndex (0-based, -1 before everything)
    loading,          \* the file whose text() promise is pending, 0 if none
    mounted,          \* the component is mounted: no render ended by a TypeError
    budget,           \* events the model still follows
    lastOp,           \* history: the last event handled
    before,           \* history: cursor and log length before the last event
    lastArg,          \* history: the index argument of the last event, or -1
    probe             \* arguments and result of a function applied on its own

vars == <<config, heap, currGuess, chooseCells, selectedCells, choosingForGroup,
          validationState, timerStarted, inFocus, undoHistory, undoIndex, loading,
          mounted, budget, lastOp, before, lastArg, probe>>

-----------------------------------------------------------------------------
(* Bounds of the model *)

\* longest sequences of events followed, one bound for each specification
MaxUndoEvents == 4
MaxBoardEvents == 3
MaxGroupEvents == 3
MaxDeleteEvents == 5
MaxGuessEvents == 7
\* most guess styles addGuess builds
MaxGuesses == 4
\* most groups addGroup builds
MaxGroups == 10

\* raw texts an input element hands to cellValCallback
RawTexts == {<<>>, <<1>>, <<2, 1>>}
\* cells the model types into and selects
EditCells == {<<0, 0>>, <<0, 1>>}
\* dimensions submitted in the Dimensions form
DimChoices == {<<2, 3>>}
\* groups whose buttons the model presses
GroupChoices == {0, 2}
\* guess styles chosen and cleared where styles are added and deleted
StyleChoices == {0, 3}
\* files chosen in the Load panel, 0 for none
FileChoices == {0, 1, 2}

\* longest side of the boards getGroup is applied to
MaxSide == 6
\* most cells of a partition allUnique is applied to on its own
MaxRegion == 3
\* presses of the Validate button in a row
MaxValidations == 2
\* events followed where the variant is switched to Other and back
MaxOtherEvents == 4
\* events followed on a board one cell away from its solution
MaxPlayEvents == 3

\* events of a run with a file being read
MaxLoadEvents == 4

\* side of the largest board with boxes of one size
MaxBoxSide == 16

\* events of a run with every kind of event
MaxElapsedEvents == 3
\* most cells typed into a board before it is validated
MaxPlaced == 2

-----------------------------------------------------------------------------
(* Program constants *)

\* versions are counted in tenths: 15 is the 1.5 of the source
CURR_VER == 15
SUDOKU_TYPES == {"12x12", "16x16", "samurai", "squiggly", "x", "default", "other"}

\* identities of grids; an event creates one grid at most, so these are
\* more than any behaviour followed can hold at once
Ids == 0 .. (MaxUndoEvents + MaxBoardEvents + MaxGuessEvents)

Min(S) == CHOOSE x \in S : \A y \in S : x <= y
MinOf(a, b) == IF a <= b THEN a ELSE b
MaxOf(a, b) == IF a >= b THEN a ELSE b
Range(s) == {s[i] : i \in DOMAIN s}

-----------------------------------------------------------------------------
(* Grids *)

Height(g) == Cardinality(DOMAIN g)
Width(g) == IF DOMAIN g = {} THEN 0 ELSE Cardinality(DOMAIN g[0])
InGrid(g, r, c) == r \in DOMAIN g /\ c \in DOMAIN g[r]
Coords(g) == {<<r, c>> : r \in DOMAIN g, c \in 0 .. (Width(g) - 1)}

\* numCols of the source, with the rows swapped in for the columns
getGroupByRows(r, c, gHeight, gWidth, dimensions) ==
    (c \div gWidth) + (dimensions[1] \div gHeight) * (r \div gHeight)

\* numCols = width / gWidth is a division of reals in the source: where
\* numCols * Math.floor(r / gHeight) is no integer the result is the fraction
\* frac[1] / frac[2]
getGroup(r, c, gHeight, gWidth, dimensions) ==
    IF (dimensions[2] * (r \div gHeight)) % gWidth = 0
    THEN (c \div gWidth) + (dimensions[2] * (r \div gHeight)) \div gWidth
    ELSE [frac |-> <<(c \div gWidth) * gWidth + dimensions[2] * (r \div gHeight),
                    gWidth>>]

newCell(group) ==
    [val |-> <<>>, guess |-> -1, group |-> group, color |-> "", error |-> FALSE]

MapCells(g, F(_, _, _)) ==
    [r \in DOMAIN g |-> [c \in DOMAIN g[r] |-> F(r, c, g[r][c])]]

\* value and guess index of every cell of a grid
View(g) == [r \in DOMAIN g |-> [c \in DOMAIN g[r] |-> <<g[r][c].val, g[r][c].guess>>]]

\* the program state as one value, and its value after a step
S == [config |-> config, heap |-> heap, currGuess |-> currGuess,
      chooseCells |-> chooseCells, selectedCells |-> selectedCells,
      choosingForGroup |-> choosingForGroup, validationState |-> validationState,
      timerStarted |-> timerStarted, inFocus |-> inFocus,
      undoHistory |-> undoHistory, undoIndex |-> undoIndex, loading |-> loading]

\* what a handler leaves: the state, and whether it ended by a TypeError
Done(s) == [s |-> s, threw |-> FALSE]
Thrown(s) == [s |-> s, threw |-> TRUE]

\* the cell grid of the document
cellsOf(s) == s.heap[s.config.cells]

\* grids the program still holds a reference to
Reach(cells, hist) ==
    {cells} \cup UNION {{hist[i].prevCells, hist[i].newCells} :
                           i \in {j \in DOMAIN hist : hist[j].type = "full"}}

\* identity given to the next grid created
Alloc(cells, hist) == Min(Ids \ Reach(cells, hist))

\* grids no longer referenced are dropped
Collect(hp, cells, hist) ==
    [i \in Ids |-> IF i \in Reach(cells, hist) THEN hp[i] ELSE <<>>]

-----------------------------------------------------------------------------
(* validate *)

isSmallGuess(c, cell) == cell.guess # -1 /\ c.guesses[cell.guess + 1].isSmall

\* isSmallGuess(cell) reads cell.guess of undefined, or .isSmall of undefined
CellThrows(c, g, p) ==
    \/ ~InGrid(g, p[1], p[2])
    \/ g[p[1]][p[2]].guess >= Len(c.guesses)

\* allUnique with one placeholder shared by all the blanks
allUniqueBlanksClash(c, g, cellList) ==
    LET list == [i \in 1 .. Len(cellList) |->
                    LET cell == g[cellList[i][1]][cellList[i][2]]
                    IN  IF isSmallGuess(c, cell) THEN <<>> ELSE cell.val]
    IN  Cardinality(Range(list)) = Len(list)

\* allUnique that reads the value of a small guess like any other
allUniqueSmallCounts(c, g, cellList) ==
    LET list == [i \in 1 .. Len(cellList) |-> g[cellList[i][1]][cellList[i][2]].val]
        keys == {IF list[i] # <<>> THEN <<"v", list[i]>> ELSE <<"i", <<i>>>> :
                    i \in 1 .. Len(list)}
    IN  Cardinality(keys) = Len(list)

\* list holds '' for a blank or small cell; the Set then holds the index i, a
\* number, in its place, and a number never equals the string of a value
allUnique(c, g, cellList) ==
    LET list == [i \in 1 .. Len(cellList) |->
                    LET cell == g[cellList[i][1]][cellList[i][2]]
                    IN  IF isSmallGuess(c, cell) THEN <<>> ELSE cell.val]
        keys == {IF list[i] # <<>> THEN <<"v", list[i]>> ELSE <<"i", <<i>>>> :
                    i \in 1 .. Len(list)}
    IN  Cardinality(keys) = Len(list)

Part(kind, cells) == [kind |-> kind, cells |-> cells \o <<>>]

\* rows taken across the whole board instead of the region
rowsAndColsWholeRows(height, width, firstRow, firstCol, sideLength) ==
    LET nR == MaxOf(0, MinOf(firstRow + sideLength, height) - firstRow)
        rows == [i \in 1 .. nR |->
                    Part("row", [j \in 1 .. width |-> <<firstRow + i - 1, j - 1>>])]
        cols == [j \in 1 .. sideLength |->
                    Part("col", [i \in 1 .. nR |-> <<firstRow + i - 1, firstCol + j - 1>>])]
    IN  rows \o cols

\* rows and columns one defaultValidate(ops) call checks on a grid of
\* height x width cells, in order
rowsAndCols(height, width, firstRow, firstCol, sideLength) ==
    LET nR == MaxOf(0, MinOf(firstRow + sideLength, height) - firstRow)
        nC == MaxOf(0, MinOf(firstCol + sideLength, width) - firstCol)
        rows == [i \in 1 .. nR |->
                    Part("row", [j \in 1 .. nC |-> <<firstRow + i - 1, firstCol + j - 1>>])]
        cols == [j \in 1 .. sideLength |->
                    Part("col", [i \in 1 .. nR |-> <<firstRow + i - 1, firstCol + j - 1>>])]
    IN  rows \o cols

\* the groups with the column divided by the height of a group
dimensionGroupsByHeight(height, width, firstRow, firstCol, sideLength, groups) ==
    LET nR == MaxOf(0, MinOf(firstRow + sideLength, height) - firstRow)
        nC == MaxOf(0, MinOf(firstCol + sideLength, width) - firstCol)
        region == [k \in 1 .. (nR * nC) |->
                    <<firstRow + ((k - 1) \div nC), firstCol + ((k - 1) % nC)>>] \o <<>>
        groupHeight == groups[1]
        numGroups == ((firstRow + sideLength) \div groupHeight)
                     * ((firstCol + sideLength) \div groups[2])
        G(p) == ((((p[1] - firstRow) \div groupHeight) * sideLength)
                 + (p[2] - firstCol)) \div groupHeight
    IN  [n \in 1 .. numGroups |->
            Part("grp", SelectSeq(region, LAMBDA p : G(p) = n - 1))] \o <<>>

\* the groups defined by the group dimensions
dimensionGroups(height, width, firstRow, firstCol, sideLength, groups) ==
    LET nR == MaxOf(0, MinOf(firstRow + sideLength, height) - firstRow)
        nC == MaxOf(0, MinOf(firstCol + sideLength, width) - firstCol)
        region == [k \in 1 .. (nR * nC) |->
                    <<firstRow + ((k - 1) \div nC), firstCol + ((k - 1) % nC)>>] \o <<>>
        groupHeight == groups[1]
        groupWidth == groups[2]
        numGroups == ((firstRow + sideLength) \div groupHeight)
                     * ((firstCol + sideLength) \div groupWidth)
        G(p) == ((((p[1] - firstRow) \div groupHeight) * sideLength)
                 + (p[2] - firstCol)) \div groupWidth
    IN  [n \in 1 .. numGroups |->
            Part("grp", SelectSeq(region, LAMBDA p : G(p) = n - 1))] \o <<>>

\* the groups defined by the cells' group value
cellGroups(c, g) ==
    LET all == [k \in 1 .. (Height(g) * Width(g)) |->
                    <<(k - 1) \div Width(g), (k - 1) % Width(g)>>] \o <<>>
    IN  IF \E p \in Range(all) : g[p[1]][p[2]].group >= Len(c.groups)
        THEN <<[kind |-> "throw", cells |-> <<>>]>>
        ELSE [n \in 1 .. Len(c.groups) |->
                Part("grp", SelectSeq(all, LAMBDA p : g[p[1]][p[2]].group = n - 1))] \o <<>>

\* the first diagonal alone
xPartsFirstOnly(height) ==
    IF height < 9
    THEN <<[kind |-> "throw", cells |-> <<>>]>>
    ELSE <<Part("x", [i \in 1 .. 9 |-> <<i - 1, i - 1>>])>>

\* the two diagonals of an X board
xParts(height) ==
    IF height < 9
    THEN <<[kind |-> "throw", cells |-> <<>>]>>
    ELSE <<Part("x", [i \in 1 .. 9 |-> <<i - 1, i - 1>>]),
           Part("x", [i \in 1 .. 9 |-> <<i - 1, 9 - i>>])>>

initialCells == <<<<0, 12>>, <<6, 6>>, <<12, 0>>, <<12, 12>>>>

sideLengthOf(type) == IF type = "12x12" THEN 12 ELSE IF type = "16x16" THEN 16 ELSE 9
groupsOf(type) == IF type = "12x12" THEN <<3, 4>>
                  ELSE IF type = "16x16" THEN <<4, 4>> ELSE <<3, 3>>

\* the partitions validate checks that the board geometry alone decides
geomPhases(type, height, width) ==
    LET first == rowsAndCols(height, width, 0, 0, sideLengthOf(type))
                 \o (IF type = "squiggly" THEN <<>>
                     ELSE dimensionGroups(height, width, 0, 0, sideLengthOf(type),
                                          groupsOf(type)))
        x == IF type = "x" THEN xParts(height) ELSE <<>>
        section(i) == rowsAndCols(height, width, initialCells[i][1], initialCells[i][2],
                                  sideLengthOf(type))
                      \o dimensionGroups(height, width, initialCells[i][1],
                                         initialCells[i][2], sideLengthOf(type),
                                         groupsOf(type))
        sam == IF type = "samurai"
               THEN section(1) \o section(2) \o section(3) \o section(4)
               ELSE <<>>
    IN  first \o x \o sam

\* the side of the board setType builds for a variant
sizeOf(type) ==
    IF type = "12x12" THEN 12 ELSE IF type = "16x16" THEN 16
    ELSE IF type = "samurai" THEN 21 ELSE 9

\* geomPhases of the boards setType builds, computed once
builtPhases == [type \in SUDOKU_TYPES |-> geomPhases(type, sizeOf(type), sizeOf(type))]

geomOf(type, height, width) ==
    IF height = sizeOf(type) /\ width = sizeOf(type)
    THEN builtPhases[type]
    ELSE geomPhases(type, height, width)

\* every partition validate checks on document c, in the order it checks them
Phases(c, g) ==
    geomOf(c.type, Height(g), Width(g))
    \o (IF c.type = "squiggly" THEN cellGroups(c, g) ELSE <<>>)

PartThrows(c, g, part) ==
    part.kind = "throw" \/ \E p \in Range(part.cells) : CellThrows(c, g, p)

\* the partitions checked before one makes validate throw
checkedOf(c, g, ph, bad) == IF bad = {} THEN Len(ph) ELSE Min(bad) - 1

\* the flag of every member of a conflicting partition is flipped
flagToggles(g, flagged) ==
    MapCells(g, LAMBDA r, cc, cell :
        [cell EXCEPT !.error = (cell.error # (<<r, cc>> \in flagged))])

\* errors are cleared first, then every member of a conflicting partition is flagged
flag(g, flagged) ==
    MapCells(g, LAMBDA r, cc, cell : [cell EXCEPT !.error = (<<r, cc>> \in flagged)])

\* filled that takes a small guess for a value
filledCountsSmall(c, g, ph, n) ==
    \A i \in 1 .. n : ph[i].kind = "row" =>
        \A p \in Range(ph[i].cells) : g[p[1]][p[2]].val # <<>>

\* no cell of the rows checked is empty or holds a small guess
filled(c, g, ph, n) ==
    \A i \in 1 .. n : ph[i].kind = "row" =>
        \A p \in Range(ph[i].cells) :
            /\ g[p[1]][p[2]].val # <<>>
            /\ ~isSmallGuess(c, g[p[1]][p[2]])

validateFound(c, hp, g, ph, n, conflicts) ==
    [hp |-> [hp EXCEPT ![c.cells] =
                flag(g, UNION {Range(ph[i].cells) : i \in conflicts})],
     threw |-> n < Len(ph),
     ran |-> n = Len(ph),
     isValid |-> conflicts = {},
     isFilled |-> filled(c, g, ph, n)]

validateFirst(c, hp, g, ph, n) ==
    validateFound(c, hp, g, ph, n, {i \in 1 .. n : ~allUnique(c, g, ph[i].cells)})

validatePhases(c, hp, g, ph) ==
    validateFirst(c, hp, g, ph,
                  checkedOf(c, g, ph, {i \in 1 .. Len(ph) : PartThrows(c, g, ph[i])}))

\* validate(c) on heap hp: the heap it leaves and what it found;
\* ran is FALSE when it returned at once (Other) or ended by a TypeError
validate(c, hp) ==
    IF c.type = "other"
    THEN [hp |-> hp, threw |-> FALSE, ran |-> FALSE, isValid |-> FALSE, isFilled |-> FALSE]
    ELSE validatePhases(c, hp, hp[c.cells], Phases(c, hp[c.cells]))

\* a verdict that does not look at isValid
vStateAfterRan(res, old) == IF res.ran THEN "valid" ELSE old

\* a validate that leaves the timer alone
timerAfterKeeps(res, old) == old

\* setValidationState / setTimerStarted at the end of validate
vStateAfter(res, old) ==
    IF res.ran THEN (IF res.isValid THEN "valid" ELSE "error") ELSE old
timerAfter(res, old) ==
    IF res.ran /\ res.isValid /\ res.isFilled THEN FALSE ELSE old

-----------------------------------------------------------------------------
(* The document after construction *)

\* resetGroups(config, defaultBoard): the fresh grid and the groups it sets
resetGroups(c, defaultBoard) ==
    LET height == c.dimensions[1]
        width == c.dimensions[2]
    IN  [g |-> [r \in 0 .. (height - 1) |-> [cc \in 0 .. (width - 1) |->
                    newCell(IF defaultBoard
                            THEN getGroup(r, cc, 3, 3, c.dimensions) ELSE 0)]],
         groups |-> IF defaultBoard
                    THEN [i \in 1 .. height |-> "#000000"]
                    ELSE <<"#000000">>]

defaultGuesses ==
    << [color |-> "#ffffff", isSmall |-> FALSE, editable |-> FALSE],
       [color |-> "#ff0000", isSmall |-> FALSE, editable |-> TRUE],
       [color |-> "#ff0000", isSmall |-> TRUE, editable |-> TRUE] >>

initialConfig ==
    [version |-> CURR_VER, dimensions |-> <<9, 9>>, cells |-> 0,
     groups |-> <<>>, guesses |-> defaultGuesses, type |-> "default",
     elapsed |-> 0, fileName |-> ""]

defaultBoard == resetGroups(initialConfig, TRUE)

\* the state after the first render and its effect, resetGroups(config, true)
mountedState ==
    [config |-> [initialConfig EXCEPT !.groups = defaultBoard.groups],
     heap |-> [i \in Ids |-> IF i = 0 THEN defaultBoard.g ELSE <<>>],
     currGuess |-> 0, chooseCells |-> -1, selectedCells |-> <<>>,
     choosingForGroup |-> -1, validationState |-> "none",
     timerStarted |-> FALSE, inFocus |-> TRUE, undoHistory |-> <<>>,
     undoIndex |-> -1, loading |-> 0]

\* the component holds state s, is mounted and has n events ahead
holds(s, n) ==
    /\ config = s.config
    /\ heap = s.heap
    /\ currGuess = s.currGuess
    /\ chooseCells = s.chooseCells
    /\ selectedCells = s.selectedCells
    /\ choosingForGroup = s.choosingForGroup
    /\ validationState = s.validationState
    /\ timerStarted = s.timerStarted
    /\ inFocus = s.inFocus
    /\ undoHistory = s.undoHistory
    /\ undoIndex = s.undoIndex
    /\ loading = s.loading
    /\ mounted = TRUE
    /\ budget = n
    /\ lastOp = "init"
    /\ before = <<-1, 0>>
    /\ lastArg = -1

firstRender(n) == holds(mountedState, n)

\* the document with n events ahead and no function applied on its own
Init(n) == firstRender(n) /\ probe = <<>>

live == heap[config.cells]

\* rendering Board, Cell and Corner in state s does not end by a TypeError
renders(s) ==
    LET g == cellsOf(s)
    IN  /\ Coords(g) # {} =>
              /\ Height(g) = s.config.dimensions[1]
              /\ Width(g) = s.config.dimensions[2]
        /\ \A p \in Coords(g) : g[p[1]][p[2]].guess < Len(s.config.guesses)
        /\ s.currGuess >= Len(s.config.guesses) =>
              \A p \in Coords(g) : g[p[1]][p[2]].guess # -1

\* the input of cell [r, c] is not disabled
Editable(s, r, c) ==
    LET g == cellsOf(s)
        guessIndex == IF g[r][c].guess # -1 THEN g[r][c].guess ELSE s.currGuess
    IN  guessIndex < Len(s.config.guesses) =>
            (s.config.guesses[guessIndex + 1].editable \/ guessIndex = s.currGuess)

\* one event: handler output out becomes the state; when the render that
\* follows throws, React unmounts the component and no handler runs any more
Handled(op, arg, out) ==
    /\ mounted
    /\ budget > 0
    /\ config' = out.s.config
    /\ heap' = Collect(out.s.heap, out.s.config.cells, out.s.undoHistory)
    /\ currGuess' = out.s.currGuess
    /\ chooseCells' = out.s.chooseCells
    /\ selectedCells' = out.s.selectedCells
    /\ choosingForGroup' = out.s.choosingForGroup
    /\ validationState' = out.s.validationState
    /\ timerStarted' = out.s.timerStarted
    /\ inFocus' = out.s.inFocus
    /\ undoHistory' = out.s.undoHistory
    /\ undoIndex' = out.s.undoIndex
    /\ loading' = out.s.loading
    /\ mounted' = renders(out.s)
    /\ budget' = budget - 1
    /\ lastOp' = op
    /\ before' = <<undoIndex, Len(undoHistory)>>
    /\ lastArg' = arg

\* an event that applies no function on its own
Step(op, arg, out) == Handled(op, arg, out) /\ probe' = probe

-----------------------------------------------------------------------------
(* Undo history *)

addUndoDiffNoTruncate(s, coords, prevVal, newVal) ==
    [s EXCEPT !.undoHistory = Append(s.undoHistory,
                    [type |-> "diff", coords |-> coords,
                     prevVal |-> prevVal, newVal |-> newVal]),
              !.undoIndex = s.undoIndex + 1]

addUndoDiff(s, coords, prevVal, newVal) ==
    [s EXCEPT !.undoHistory = Append(SubSeq(s.undoHistory, 1, s.undoIndex + 1),
                    [type |-> "diff", coords |-> coords,
                     prevVal |-> prevVal, newVal |-> newVal]),
              !.undoIndex = s.undoIndex + 1]

addUndoFull(s, prevCells, newCells) ==
    [s EXCEPT !.undoHistory = Append(SubSeq(s.undoHistory, 1, s.undoIndex + 1),
                    [type |-> "full", prevCells |-> prevCells, newCells |-> newCells]),
              !.undoIndex = s.undoIndex + 1]

resetUndoKeepHistory(s) == [s EXCEPT !.undoIndex = -1]

resetUndo(s) == [s EXCEPT !.undoHistory = <<>>, !.undoIndex = -1]

\* validate(c) run as the last call of a handler on state s with document c:
\* when it throws, the calls after it (rest) are not made
validated(s, res, rest(_)) ==
    IF res.threw
    THEN Thrown([s EXCEPT !.heap = res.hp])
    ELSE Done(rest([s EXCEPT !.heap = res.hp,
                             !.validationState = vStateAfter(res, s.validationState),
                             !.timerStarted = timerAfter(res, s.timerStarted)]))

thenValidate(s, c, rest(_)) == validated(s, validate(c, s.heap), rest)

Same(s) == s

-----------------------------------------------------------------------------
(* Cell edits *)

\* the letter to show when an input holds more than one
diff(oldVal, newVal) ==
    LET fresh == {i \in 1 .. Len(newVal) :
                     \A j \in 1 .. Len(oldVal) : oldVal[j] # newVal[i]}
    IN  IF Len(newVal) >= Len(oldVal) /\ fresh # {}
        THEN <<newVal[Min(fresh)]>>
        ELSE <<newVal[Len(newVal)]>>

\* val.split('').sort().join('')
sorted(val) == SortSeq(val, LAMBDA a, b : a < b)

cellValCallback(s, r, c, val) ==
    LET s0 == IF ~s.timerStarted /\ s.currGuess = 1 /\ s.config.type # "other"
              THEN [s EXCEPT !.timerStarted = TRUE] ELSE s
        prevVal == cellsOf(s)[r][c].val
        guess == IF val = <<>> THEN -1 ELSE s.currGuess
    IN  IF guess >= Len(s.config.guesses)
        THEN \* newConfig.guesses[guess].isSmall of undefined
             Thrown(s0)
        ELSE
        LET isSmall == guess # -1 /\ s.config.guesses[guess + 1].isSmall
            newVal == IF Len(val) > 1 /\ ~isSmall THEN diff(prevVal, val)
                      ELSE IF isSmall THEN sorted(val) ELSE val
            s1 == [s0 EXCEPT !.heap[s.config.cells][r][c] =
                       [@ EXCEPT !.val = newVal, !.guess = guess]]
            s2 == addUndoDiff(s1, <<r, c>>, prevVal, newVal)
        IN  thenValidate(s2, s.config, Same)

\* clearGuess that also empties the cells of the styles after i
clearGuessFrom(s, i) ==
    LET prevCells == Alloc(s.config.cells, s.undoHistory)
        cleared == MapCells(cellsOf(s), LAMBDA r, c, cell :
                      IF cell.guess >= i
                      THEN [cell EXCEPT !.val = <<>>, !.guess = -1] ELSE cell)
        s1 == [s EXCEPT !.heap[prevCells] = cellsOf(s),
                        !.heap[s.config.cells] = cleared]
        s2 == addUndoFull(s1, prevCells, s.config.cells)
    IN  thenValidate(s2, s.config, Same)

\* If a cell has this guess, set val to ''
clearGuess(s, i) ==
    LET prevCells == Alloc(s.config.cells, s.undoHistory)
        cleared == MapCells(cellsOf(s), LAMBDA r, c, cell :
                      IF cell.guess = i
                      THEN [cell EXCEPT !.val = <<>>, !.guess = -1] ELSE cell)
        s1 == [s EXCEPT !.heap[prevCells] = cellsOf(s),
                        !.heap[s.config.cells] = cleared]
        s2 == addUndoFull(s1, prevCells, s.config.cells)
    IN  thenValidate(s2, s.config, Same)

setCurrGuess(s, i) == Done([s EXCEPT !.currGuess = i])

-----------------------------------------------------------------------------
(* undo and redo *)

\* the body of undo when undoIndex > -1
undoApply(s) ==
    LET currUndo == s.undoHistory[s.undoIndex + 1]
        setUndoIndex(t) == [t EXCEPT !.undoIndex = s.undoIndex - 1]
    IN  IF currUndo.type = "full"
        THEN LET newConfig == [s.config EXCEPT !.cells = currUndo.prevCells]
             IN  thenValidate([s EXCEPT !.config = newConfig], newConfig, setUndoIndex)
        ELSE LET r == currUndo.coords[1]
                 c == currUndo.coords[2]
             IN  IF ~InGrid(cellsOf(s), r, c)
                 THEN \* prevCells[r][c].val = prevVal writes to undefined
                      Thrown(s)
                 ELSE thenValidate(
                        [s EXCEPT !.heap[s.config.cells][r][c].val = currUndo.prevVal],
                        s.config, setUndoIndex)

\* undo with the guard left off setUndoIndex
undoNoGuard(s) ==
    IF s.undoIndex > -1 THEN undoApply(s)
    ELSE Done([s EXCEPT !.undoIndex = s.undoIndex - 1])

undo(s) ==
    IF s.undoIndex > -1 THEN undoApply(s) ELSE Done(s)

\* the body of redo when there is a record at newUndoIndex
redoApply(s) ==
    LET newUndoIndex == s.undoIndex + 1
        currUndo == s.undoHistory[newUndoIndex + 1]
        s0 == [s EXCEPT !.undoIndex = newUndoIndex]
    IN  IF currUndo.type = "full"
        THEN LET newConfig == [s.config EXCEPT !.cells = currUndo.newCells]
             IN  thenValidate([s0 EXCEPT !.config = newConfig], newConfig, Same)
        ELSE LET r == currUndo.coords[1]
                 c == currUndo.coords[2]
             IN  IF ~InGrid(cellsOf(s), r, c)
                 THEN \* newCells[r][c].val = newVal writes to undefined
                      Thrown(s0)
                 ELSE thenValidate(
                        [s0 EXCEPT !.heap[s.config.cells][r][c].val = currUndo.newVal],
                        s.config, Same)

\* redo guarded by undoIndex <= undoHistory.length - 1
redoOffByOne(s) ==
    IF s.undoIndex < Len(s.undoHistory) - 1 THEN redoApply(s)
    ELSE IF s.undoIndex <= Len(s.undoHistory) - 1
    THEN \* setUndoIndex(newUndoIndex), then currUndo is undefined
         Thrown([s EXCEPT !.undoIndex = s.undoIndex + 1])
    ELSE Done(s)

redo(s) ==
    IF s.undoIndex < Len(s.undoHistory) - 1 THEN redoApply(s) ELSE Done(s)

-----------------------------------------------------------------------------
(* Guess styles *)

\* SudokuControls.addGuess and setGuesses
addGuess(s) ==
    Done([s EXCEPT !.config.guesses =
              Append(@, [color |-> "#ffffff", isSmall |-> FALSE, editable |-> TRUE])])

\* splice(i, 1) on a sequence
Splice(seq, i) == SubSeq(seq, 1, i) \o SubSeq(seq, i + 2, Len(seq))

deleteGuess(s, i) ==
    Done([s EXCEPT !.config.guesses = Splice(@, i),
                   !.heap[s.config.cells] = MapCells(@, LAMBDA r, c, cell :
                       IF cell.guess >= i
                       THEN [cell EXCEPT !.guess = MaxOf(0, cell.guess - 1)]
                       ELSE cell)])

-----------------------------------------------------------------------------
(* Dimensions and groups *)

\* dimensionsCallback that starts the clock anew
dimensionsCallbackZeroes(s, height, width, isDefault) ==
    LET newConfig == [s.config EXCEPT !.dimensions = <<height, width>>, !.elapsed = 0]
        fresh == resetGroups(newConfig, isDefault)
        id == Alloc(s.config.cells, s.undoHistory)
    IN  [s EXCEPT !.config = [newConfig EXCEPT !.cells = id, !.groups = fresh.groups],
                  !.heap[id] = fresh.g]

\* dimensionsCallback, with resetGroups: a fresh grid replaces the cells
dimensionsCallback(s, height, width, isDefault) ==
    LET newConfig == [s.config EXCEPT !.dimensions = <<height, width>>]
        fresh == resetGroups(newConfig, isDefault)
        id == Alloc(s.config.cells, s.undoHistory)
    IN  [s EXCEPT !.config = [newConfig EXCEPT !.cells = id, !.groups = fresh.groups],
                  !.heap[id] = fresh.g]

addGroup(s) == [s EXCEPT !.config.groups = Append(@, "#000000")]

deleteGroupNoShift(s, i) ==
    Done([s EXCEPT !.config.groups = Splice(@, i),
                   !.heap[s.config.cells] = MapCells(@, LAMBDA r, c, cell :
                       IF cell.group > i
                       THEN [cell EXCEPT !.group = MaxOf(0, cell.group - 1)]
                       ELSE cell)])

deleteGroup(s, i) ==
    Done([s EXCEPT !.config.groups = Splice(@, i),
                   !.heap[s.config.cells] = MapCells(@, LAMBDA r, c, cell :
                       IF cell.group >= i
                       THEN [cell EXCEPT !.group = MaxOf(0, cell.group - 1)]
                       ELSE cell)])

\* the cells of a grid in row order
RowMajor(g) ==
    LET w == Width(g)
    IN  [k \in 1 .. (Height(g) * w) |-> <<(k - 1) \div w, (k - 1) % w>>]

\* chooseCell(i) with i a group: its cells become the selection
chooseCellBegin(s, i) ==
    LET g == cellsOf(s)
    IN  [s EXCEPT !.chooseCells = i,
                  !.selectedCells = SelectSeq(RowMajor(g),
                                        LAMBDA p : g[p[1]][p[2]].group = i)]

\* chooseCell(undefined): the selection becomes the group chooseCells, the
\* other cells of that group move to the next group
chooseCellConfirm(s) ==
    LET g == cellsOf(s)
        sel == s.selectedCells
        outside == {k \in 1 .. Len(sel) : ~InGrid(g, sel[k][1], sel[k][2])}
        upTo == IF outside = {} THEN Len(sel) ELSE Min(outside) - 1
        written == {sel[k] : k \in 1 .. upTo}
        g1 == MapCells(g, LAMBDA r, c, cell :
                  IF <<r, c>> \in written
                  THEN [cell EXCEPT !.group = s.chooseCells] ELSE cell)
    IN  IF outside # {}
        THEN \* newConfig.cells[r][c].group = ... writes to undefined
             Thrown([s EXCEPT !.heap[s.config.cells] = g1])
        ELSE LET moved == {p \in Coords(g1) :
                              /\ g1[p[1]][p[2]].group = s.chooseCells
                              /\ p \notin Range(sel)}
                 g2 == MapCells(g1, LAMBDA r, c, cell :
                           IF <<r, c>> \in moved
                           THEN [cell EXCEPT !.group = s.chooseCells + 1] ELSE cell)
                 groups == IF moved # {} /\ s.chooseCells + 1 = Len(s.config.groups)
                           THEN Append(s.config.groups, "#000000")
                           ELSE s.config.groups
             IN  Done([s EXCEPT !.heap[s.config.cells] = g2,
                                !.config.groups = groups,
                                !.chooseCells = -1,
                                !.selectedCells = <<>>])

\* SudokuControls.chooseCell(i): begin choosing for group i, or confirm
chooseCell(s, i) ==
    IF s.choosingForGroup = -1
    THEN Done(chooseCellBegin([s EXCEPT !.choosingForGroup = i], i))
    ELSE chooseCellConfirm([s EXCEPT !.choosingForGroup = -1])

\* a click on a cell while choosing toggles it in the selection
selectedCellsCB(s, cell) ==
    LET at == {k \in 1 .. Len(s.selectedCells) : s.selectedCells[k] = cell}
    IN  Done([s EXCEPT !.selectedCells =
                  IF at = {} THEN Append(@, cell) ELSE Splice(@, Min(at) - 1)])

deselectAll(s) == Done([s EXCEPT !.selectedCells = <<>>])

-----------------------------------------------------------------------------
(* Variants *)

\* setGroups with the sides of a box swapped
setGroupsSwapped(s, cellHeight, cellWidth) ==
    [s EXCEPT !.heap[s.config.cells] = MapCells(@, LAMBDA r, c, cell :
        [cell EXCEPT !.group = getGroup(r, c, cellWidth, cellHeight,
                                        s.config.dimensions)])]

\* setGroups(cellHeight, cellWidth) on the grid of s
setGroups(s, cellHeight, cellWidth) ==
    [s EXCEPT !.heap[s.config.cells] = MapCells(@, LAMBDA r, c, cell :
        [cell EXCEPT !.group = getGroup(r, c, cellHeight, cellWidth,
                                        s.config.dimensions)])]

RECURSIVE addGroups(_, _)
addGroups(s, n) == IF n = 0 THEN s ELSE addGroups(addGroup(s), n - 1)

\* the shaded boxes with the box above the middle region left out
shadedGroupsBut10 == {3, 21, 22, 26, 27, 38, 45}

shadedGroups == {3, 10, 21, 22, 26, 27, 38, 45}

\* the board a variant builds; squiggly and other keep the board
typeBoard(s, type) ==
    CASE type = "12x12" ->
             setGroups(addGroups(dimensionsCallback(s, 12, 12, FALSE), 11), 3, 4)
      [] type = "16x16" ->
             setGroups(addGroups(dimensionsCallback(s, 16, 16, FALSE), 15), 4, 4)
      [] type = "x" ->
             LET d == dimensionsCallback(s, 9, 9, TRUE)
             IN  [d EXCEPT !.heap[d.config.cells] = MapCells(@, LAMBDA r, c, cell :
                     IF r < 9 /\ (c = r \/ c = 8 - r)
                     THEN [cell EXCEPT !.color = "#212121"] ELSE cell)]
      [] type = "samurai" ->
             LET d == dimensionsCallback(s, 21, 21, FALSE)
             IN  [d EXCEPT !.config.groups = <<"#000000", "#000000", "#2f4f4f">>,
                           !.heap[d.config.cells] = MapCells(@, LAMBDA r, c, cell :
                     LET groupNum == getGroup(r, c, 3, 3, d.config.dimensions)
                     IN  IF groupNum \in shadedGroups
                         THEN [cell EXCEPT !.group = 2, !.guess = 0]
                         ELSE [cell EXCEPT !.group = groupNum % 2])]
      [] type = "default" -> dimensionsCallback(s, 9, 9, TRUE)
      [] OTHER -> s

setType(s, type) ==
    Done(resetUndo([typeBoard(s, type) EXCEPT !.config.type = type]))

-----------------------------------------------------------------------------
(* Files *)

\* a default board saved with a given 1 at [0, 0] and a 2 in style guess at [0, 1]
savedCells(guess) ==
    [defaultBoard.g EXCEPT ![0][0] = [@ EXCEPT !.val = <<1>>, !.guess = 0],
                           ![0][1] = [@ EXCEPT !.val = <<2>>, !.guess = guess]]

\* the parsed texts of the files the model loads: one saved by this version
\* and one saved by version 1.4 (versions are counted in tenths).  Both hold
\* every field of their version, so the steps of upgrade for files older
\* than 1.4, which fill in missing fields, find nothing to do.
Files ==
    << [version |-> 15, dimensions |-> <<9, 9>>, cells |-> savedCells(1),
        groups |-> defaultBoard.groups, guesses |-> defaultGuesses,
        type |-> "default", elapsed |-> 7, fileName |-> "current"],
       [version |-> 14, dimensions |-> <<9, 9>>, cells |-> savedCells(2),
        groups |-> defaultBoard.groups,
        guesses |-> <<defaultGuesses[1], defaultGuesses[2],
                      [color |-> "#0000ff", isSmall |-> FALSE, editable |-> TRUE]>>,
        type |-> "x", elapsed |-> 0, fileName |-> "old"] >>

\* a field of a parsed document that is there; one that is not reads undefined
Has(doc, f) == f \in DOMAIN doc

\* obj.f = v
With(obj, f, v) == [g \in DOMAIN obj \cup {f} |-> IF g = f THEN v ELSE obj[g]]

\* const version = config.version || 1.0
versionOf(doc) == IF Has(doc, "version") /\ doc.version # 0 THEN doc.version ELSE 10

\* getColor: the computed colour of a colour text, as hex; rgb2Hex has no
\* match for the rgba(...) of a transparent colour and returns undefined
getColor(color) ==
    CASE color = "black" -> "#000000"
      [] color = "red" -> "#ff0000"
      [] color = "blue" -> "#0000ff"
      [] color = "transparent" -> "undefined"
      [] OTHER -> color

smallGuess == [color |-> "#ff0000", isSmall |-> TRUE, editable |-> TRUE]

\* version < 1.1 with isGuess taken for set in every cell
up11AllGuesses(st, version) ==
    IF st.threw \/ version >= 11 THEN st
    ELSE IF ~Has(st.doc, "cells") THEN [st EXCEPT !.threw = TRUE]
    ELSE [st EXCEPT !.doc =
            With(With(st.doc, "cells", MapCells(st.doc.cells, LAMBDA r, c, cell :
                          [f \in (DOMAIN cell \ {"isGuess"}) \cup {"guess"} |->
                              IF f = "guess" THEN 1 ELSE cell[f]])),
                 "guesses", <<defaultGuesses[1], defaultGuesses[2]>>)]

\* version < 1.1: convert to current guess style
up11(st, version) ==
    IF st.threw \/ version >= 11 THEN st
    ELSE IF ~Has(st.doc, "cells")
    THEN \* for (const row of undefined)
         [st EXCEPT !.threw = TRUE]
    ELSE [st EXCEPT !.doc =
            With(With(st.doc, "cells", MapCells(st.doc.cells, LAMBDA r, c, cell :
                          [f \in (DOMAIN cell \ {"isGuess"}) \cup {"guess"} |->
                              IF f = "guess"
                              THEN (IF Has(cell, "isGuess") /\ cell.isGuess THEN 1 ELSE 0)
                              ELSE cell[f]])),
                 "guesses", <<defaultGuesses[1], defaultGuesses[2]>>)]

\* version < 1.2: convert all colors to hex
up12(st, version) ==
    IF st.threw \/ version >= 12 THEN st
    ELSE IF ~Has(st.doc, "groups") \/ ~Has(st.doc, "guesses")
    THEN [st EXCEPT !.threw = TRUE]
    ELSE [st EXCEPT !.doc =
            With(With(st.doc, "groups",
                      [k \in DOMAIN st.doc.groups |-> getColor(st.doc.groups[k])]),
                 "guesses",
                 [k \in DOMAIN st.doc.guesses |->
                     With(st.doc.guesses[k], "color", getColor(st.doc.guesses[k].color))])]

\* version < 1.3: add type of sudoku, default to Default
up13(st, version) ==
    IF st.threw \/ version >= 13 \/ Has(st.doc, "type") THEN st
    ELSE [st EXCEPT !.doc = With(st.doc, "type", "default")]

\* version < 1.4: add "editable" field to guesses
up14(st, version) ==
    IF st.threw \/ version >= 14 THEN st
    ELSE IF ~Has(st.doc, "guesses") THEN [st EXCEPT !.threw = TRUE]
    ELSE [st EXCEPT !.doc =
            With(st.doc, "guesses",
                 [k \in DOMAIN st.doc.guesses |->
                     IF Has(st.doc.guesses[k], "editable") THEN st.doc.guesses[k]
                     ELSE With(st.doc.guesses[k], "editable", TRUE)])]

\* splice(2, 0, guess) on a sequence
Insert2(seq, guess) ==
    SubSeq(seq, 1, MinOf(2, Len(seq))) \o <<guess>> \o SubSeq(seq, 3, Len(seq))

\* version < 1.5 shifting only the guesses above 2
up15ShiftAbove2(st, version) ==
    IF st.threw \/ version >= 15 THEN st
    ELSE IF ~Has(st.doc, "guesses") \/ ~Has(st.doc, "cells")
    THEN [st EXCEPT !.threw = TRUE]
    ELSE [st EXCEPT !.doc =
            With(With(With(st.doc, "guesses", Insert2(st.doc.guesses, smallGuess)),
                      "cells", MapCells(st.doc.cells, LAMBDA r, c, cell :
                          IF Has(cell, "guess") /\ cell.guess > 2
                          THEN With(cell, "guess", cell.guess + 1) ELSE cell)),
                 "elapsed", 0)]

\* version < 1.5: add the small guess at index 2, shift the cell guesses,
\* add the elapsed field
up15(st, version) ==
    IF st.threw \/ version >= 15 THEN st
    ELSE IF ~Has(st.doc, "guesses") \/ ~Has(st.doc, "cells")
    THEN [st EXCEPT !.threw = TRUE]
    ELSE [st EXCEPT !.doc =
            With(With(With(st.doc, "guesses", Insert2(st.doc.guesses, smallGuess)),
                      "cells", MapCells(st.doc.cells, LAMBDA r, c, cell :
                          IF Has(cell, "guess") /\ cell.guess >= 2
                          THEN With(cell, "guess", cell.guess + 1) ELSE cell)),
                 "elapsed", 0)]

\* an upgrade that leaves the version as it was
stampKeepsVersion(st) == st

\* config.version = CURR_VER
stamp(st) == IF st.threw THEN st ELSE [st EXCEPT !.doc = With(st.doc, "version", CURR_VER)]

upgradeFrom(st, version) ==
    stamp(up15(up14(up13(up12(up11(st, version), version), version), version), version))

\* upgrade(config): the document left, and whether it ended by a TypeError
upgradeRun(doc) == upgradeFrom([doc |-> doc, threw |-> FALSE], versionOf(doc))

upgrade(doc) == upgradeRun(doc).doc

\* load: the text of file f is asked for; with no file chosen (f = 0),
\* file.text reads a property of undefined
load(s, f) == IF f = 0 THEN Thrown(s) ELSE Done([s EXCEPT !.loading = f])

\* JSON.stringify(config, null, 2), as JSON.parse reads it: a field that
\* holds undefined is left out, so a cell has an error field when it is flagged
save(s) ==
    With(s.config, "cells",
         MapCells(s.heap[s.config.cells], LAMBDA r, c, cell :
             IF cell.error THEN cell ELSE [f \in DOMAIN cell \ {"error"} |-> cell[f]]))

\* the cells of a parsed file as the component reads them: an error field
\* that is not there reads undefined
parsedCells(doc) ==
    MapCells(doc.cells, LAMBDA r, c, cell :
        With(cell, "error", Has(cell, "error") /\ cell.error))

\* the callback with no call of resetUndo
loadedFromKeepsLog(s, file) ==
    LET doc == upgrade(file)
        id == Alloc(s.config.cells, s.undoHistory)
    IN  Done([s EXCEPT !.config = [doc EXCEPT !.cells = id],
                       !.heap[id] = parsedCells(doc),
                       !.loading = 0])

\* the callback of file.text() for a parsed file: the upgraded file becomes
\* the document
loadedFrom(s, file) ==
    LET doc == upgrade(file)
        id == Alloc(s.config.cells, s.undoHistory)
    IN  Done(resetUndo([s EXCEPT !.config = [doc EXCEPT !.cells = id],
                                 !.heap[id] = parsedCells(doc),
                                 !.loading = 0]))

loadThen(s) == loadedFrom(s, Files[s.loading])

-----------------------------------------------------------------------------
(* Events *)

CellEdit(r, c, val) ==
    /\ InGrid(live, r, c)
    /\ Editable(S, r, c)
    /\ Step("cellValCallback", -1, cellValCallback(S, r, c, val))

ClearGuess(i) ==
    /\ choosingForGroup = -1
    /\ i \in 0 .. (Len(config.guesses) - 1)
    /\ Step("clearGuess", i, clearGuess(S, i))

\* the radio button of a guess style, or the Alt+NUM hotkey in a cell
SetCurrGuess(i) ==
    /\ choosingForGroup = -1 \/ Coords(live) # {}
    /\ i \in 0 .. (Len(config.guesses) - 1)
    /\ i # currGuess
    /\ Step("setCurrGuess", i, setCurrGuess(S, i))

\* Ctrl+Z and Ctrl+Shift+Z are handled by the cell that has the focus
Undo ==
    /\ Coords(live) # {}
    /\ Step("undo", -1, undo(S))

Redo ==
    /\ Coords(live) # {}
    /\ Step("redo", -1, redo(S))

AddGuess ==
    /\ choosingForGroup = -1
    /\ Len(config.guesses) < MaxGuesses
    /\ Step("addGuess", -1, addGuess(S))

\* only the styles after the first three have a Delete button
DeleteGuess(i) ==
    /\ choosingForGroup = -1
    /\ i > 2
    /\ i < Len(config.guesses)
    /\ Step("deleteGuess", i, deleteGuess(S, i))

\* the form of the Dimensions panel; it hands over the texts of its inputs,
\* which every use of the dimensions converts to numbers
SetDimensions(height, width) ==
    /\ choosingForGroup = -1
    /\ Step("setDimensions", -1, Done(dimensionsCallback(S, height, width, FALSE)))

\* the Clear Groups button
ClearGroups ==
    /\ mounted
    /\ Step("clearGroups", -1,
            Done(dimensionsCallback(S, config.dimensions[1], config.dimensions[2], FALSE)))

\* the Default header
DefaultBoard ==
    /\ mounted
    /\ Step("defaultBoard", -1, Done(dimensionsCallback(S, 9, 9, TRUE)))

AddGroup ==
    /\ Len(config.groups) < MaxGroups
    /\ Step("addGroup", -1, Done(addGroup(S)))

DeleteGroup(i) ==
    /\ i < Len(config.groups)
    /\ Step("deleteGroup", i, deleteGroup(S, i))

\* the Choose Cells button of group i; the buttons of the other groups are
\* disabled while a group is being chosen for
ChooseCells(i) ==
    /\ choosingForGroup = -1
    /\ i < Len(config.groups)
    /\ Step("chooseCells", i, chooseCell(S, i))

\* the Confirm button of the group, or any header: showContent confirms
\* before it switches the panel
Confirm ==
    /\ choosingForGroup # -1
    /\ Step("confirm", choosingForGroup, chooseCell(S, choosingForGroup))

SelectCell(r, c) ==
    /\ chooseCells # -1
    /\ InGrid(live, r, c)
    /\ Step("selectCell", -1, selectedCellsCB(S, <<r, c>>))

DeselectAll ==
    /\ choosingForGroup # -1
    /\ choosingForGroup < Len(config.groups)
    /\ selectedCells # <<>>
    /\ Step("deselectAll", -1, deselectAll(S))

\* the select of the Validate panel changes
SetType(type) ==
    /\ choosingForGroup = -1
    /\ type # config.type
    /\ Step("setType", -1, setType(S, type))

\* the Parse Config button
Load(f) ==
    /\ choosingForGroup = -1
    /\ loading = 0
    /\ Step("load", f, load(S, f))

LoadThen ==
    /\ loading # 0
    /\ Step("loadThen", loading, loadThen(S))

-----------------------------------------------------------------------------
NextUndo ==
    \/ \E p \in EditCells, val \in RawTexts : CellEdit(p[1], p[2], val)
    \/ \E i \in 0 .. (MaxGuesses - 1) : ClearGuess(i)
    \/ \E i \in 0 .. (MaxGuesses - 1) : SetCurrGuess(i)
    \/ Undo
    \/ Redo

SpecUndo == Init(MaxUndoEvents) /\ [][NextUndo]_vars

\* edits, variants, dimensions and files
NextBoard ==
    \/ \E p \in EditCells, val \in RawTexts : CellEdit(p[1], p[2], val)
    \/ \E i \in 0 .. (MaxGuesses - 1) : ClearGuess(i)
    \/ Undo
    \/ Redo
    \/ \E type \in SUDOKU_TYPES : SetType(type)
    \/ \E d \in DimChoices : SetDimensions(d[1], d[2])
    \/ \E f \in FileChoices : Load(f)
    \/ LoadThen

SpecBoard == Init(MaxBoardEvents) /\ [][NextBoard]_vars

\* the Groups panel, with dimensions and variants
NextGroups ==
    \/ AddGroup
    \/ \E i \in GroupChoices : DeleteGroup(i)
    \/ \E i \in GroupChoices : ChooseCells(i)
    \/ \E p \in EditCells : SelectCell(p[1], p[2])
    \/ DeselectAll
    \/ Confirm
    \/ ClearGroups
    \/ DefaultBoard
    \/ \E d \in DimChoices : SetDimensions(d[1], d[2])
    \/ \E type \in SUDOKU_TYPES : SetType(type)

SpecGroups == Init(MaxGroupEvents) /\ [][NextGroups]_vars

\* groups added and deleted
NextDelete ==
    \/ AddGroup
    \/ \E i \in GroupChoices : DeleteGroup(i)
    \/ ClearGroups
    \/ DefaultBoard

SpecDelete == Init(MaxDeleteEvents) /\ [][NextDelete]_vars

\* the Guesses panel with edits, undo and redo
NextGuess ==
    \/ CellEdit(0, 0, <<1>>)
    \/ AddGuess
    \/ \E i \in 0 .. (MaxGuesses - 1) : DeleteGuess(i)
    \/ \E i \in StyleChoices : ClearGuess(i)
    \/ \E i \in StyleChoices : SetCurrGuess(i)
    \/ Undo
    \/ Redo

SpecGuess == Init(MaxGuessEvents) /\ [][NextGuess]_vars

-----------------------------------------------------------------------------
(* Validation of boards *)

\* boards validated: the board of each variant but Other, and the Default
\* board after 2 x 3 was submitted in the Dimensions form
BoardKinds == {"default", "x", "12x12", "16x16", "squiggly", "samurai", "2x3"}

boardState(kind) ==
    IF kind = "default" THEN mountedState
    ELSE IF kind = "2x3" THEN dimensionsCallback(mountedState, 2, 3, FALSE)
    ELSE setType(mountedState, kind).s

\* boardState of every kind, computed once
builtBoards == [kind \in BoardKinds |-> boardState(kind)]

\* cells typed into on each board
PlaceCells(kind) ==
    CASE kind = "12x12" -> {<<0, 0>>, <<0, 4>>, <<4, 0>>, <<2, 3>>, <<3, 3>>, <<11, 11>>}
      [] kind = "16x16" -> {<<0, 0>>, <<0, 4>>, <<4, 0>>, <<3, 3>>, <<4, 4>>, <<15, 15>>}
      [] kind = "samurai" -> {<<0, 0>>, <<0, 4>>, <<0, 12>>, <<6, 6>>, <<6, 14>>,
                              <<20, 12>>, <<20, 20>>}
      [] kind = "2x3" -> {<<0, 0>>, <<0, 1>>, <<1, 1>>, <<1, 2>>}
      [] OTHER -> {<<0, 0>>, <<0, 4>>, <<4, 0>>, <<1, 1>>, <<4, 4>>, <<0, 8>>}

\* what is typed: a 1 in guess style 1, a small 1 in style 2, or nothing
Typed == [one |-> [val |-> <<1>>, guess |-> 1],
          small |-> [val |-> <<1>>, guess |-> 2],
          blank |-> [val |-> <<>>, guess |-> -1]]

\* a solution of the board: rows, columns and boxes of gh x gw cells hold
\* each of gh * gw characters once, in every region anchored at a multiple
\* of gh; a cell that is no small guess holds one character
solutionAt(r, c, gh, gw) == <<((gw * (r % gh) + (r \div gh) + c) % (gh * gw)) + 1>>

\* the board of state s, blank or solved, with the cells of placed typed
\* over and, when stale, the flags an earlier pass left on the last row
filledBoard(s, kind, solved, placed, stale) ==
    MapCells(cellsOf(s), LAMBDA r, c, cell :
        [cell EXCEPT
            !.val = IF <<r, c>> \in DOMAIN placed THEN Typed[placed[<<r, c>>]].val
                    ELSE IF solved /\ cell.guess = -1
                    THEN solutionAt(r, c, groupsOf(kind)[1], groupsOf(kind)[2])
                    ELSE @,
            !.guess = IF <<r, c>> \in DOMAIN placed THEN Typed[placed[<<r, c>>]].guess
                      ELSE IF solved /\ cell.guess = -1 THEN 1
                      ELSE @,
            !.error = stale /\ r = Height(cellsOf(s)) - 1])

Placements(kind) ==
    UNION {[cells -> DOMAIN Typed] :
           cells \in {q \in SUBSET PlaceCells(kind) : Cardinality(q) <= MaxPlaced}}

DocInputs ==
    UNION {[kind : {kind}, solved : BOOLEAN, placed : Placements(kind), stale : BOOLEAN] :
           kind \in BoardKinds}

\* the state with the board of input d, the timer running
docState(s, d) ==
    [s EXCEPT !.heap = Collect([@ EXCEPT ![s.config.cells] =
                                   filledBoard(s, d.kind, d.solved, d.placed, d.stale)],
                               s.config.cells, <<>>),
              !.timerStarted = TRUE]

\* the alert of validate: the puzzle is completed
alerted(res) == res.ran /\ res.isValid /\ res.isFilled

\* the Validate button, props.validate(): validate of the document shown
ValidateWith(res) ==
    /\ Handled("validate", -1, validated(S, res, Same))
    /\ probe' = [probe EXCEPT !.done = TRUE,
                              !.out = [threw |-> res.threw, ran |-> res.ran,
                                       isValid |-> res.isValid,
                                       isFilled |-> res.isFilled,
                                       alerted |-> alerted(res)]]

Validate ==
    /\ mounted
    /\ ValidateWith(validate(config, heap))

InitValidate ==
    \E d \in DocInputs :
        /\ holds(docState(builtBoards[d.kind], d), MaxValidations)
        /\ probe = [arg |-> d, done |-> FALSE, out |-> <<>>]

NextValidate == Validate

SpecValidate == InitValidate /\ [][NextValidate]_vars

-----------------------------------------------------------------------------
(* The timer *)

\* the interval set whenever the timer is started
tickEnabledUnfocused(s) == s.timerStarted

\* shouldSet of useInterval: inFocus && timerStarted
tickEnabled(s) == s.inFocus /\ s.timerStarted

\* the callback of the interval
tick(s) == Done([s EXCEPT !.config.elapsed = @ + 1])

Tick ==
    /\ tickEnabled(S)
    /\ Step("tick", -1, tick(S))

\* the window gains and loses the focus
Focus ==
    /\ ~inFocus
    /\ Step("focus", -1, Done([S EXCEPT !.inFocus = TRUE]))

Blur ==
    /\ inFocus
    /\ Step("blur", -1, Done([S EXCEPT !.inFocus = FALSE]))

\* the cell typed into, what it holds first and what is typed
PlayCell == <<0, 4>>
PlayPlaced == {<<>>, PlayCell :> "blank", PlayCell :> "small"}
PlayTexts == {<<>>, <<1>>, solutionAt(PlayCell[1], PlayCell[2], 3, 3)}

\* a solved Default board, but for PlayCell where something is placed; the
\* timer is stopped where the board is complete
PlayInputs ==
    {d \in [kind : {"default"}, solved : {TRUE}, placed : PlayPlaced,
            stale : {FALSE}, currGuess : {1, 2}, timer : BOOLEAN] :
        d.placed = <<>> => ~d.timer}

playState(d) ==
    [docState(mountedState, d) EXCEPT !.currGuess = d.currGuess,
                                      !.timerStarted = d.timer,
                                      !.validationState = "valid"]

InitPlay ==
    \E d \in PlayInputs :
        /\ holds(playState(d), MaxPlayEvents)
        /\ probe = [arg |-> d, done |-> FALSE, out |-> <<>>]

NextPlay ==
    \/ \E val \in PlayTexts : CellEdit(PlayCell[1], PlayCell[2], val)
    \/ \E i \in {1, 2} : ClearGuess(i)
    \/ Undo
    \/ Redo
    \/ Validate
    \/ Tick
    \/ Focus
    \/ Blur

SpecPlay == InitPlay /\ [][NextPlay]_vars

\* play while the text of a file is being read: the Parse Config button was
\* pressed on the first board, with guess style 1 current
InitLoad ==
    \E f \in 1 .. Len(Files), t \in BOOLEAN :
        /\ holds([mountedState EXCEPT !.loading = f, !.currGuess = 1,
                                      !.timerStarted = t], MaxLoadEvents)
        /\ probe = <<>>

NextLoad ==
    \/ \E cell \in EditCells, val \in {<<>>, <<3>>} : CellEdit(cell[1], cell[2], val)
    \/ Undo
    \/ Redo
    \/ Tick
    \/ \E f \in 1 .. Len(Files) : Load(f)
    \/ LoadThen

SpecLoad == InitLoad /\ [][NextLoad]_vars

\* every kind of event, on the first board
InitElapsed ==
    /\ firstRender(MaxElapsedEvents)
    /\ probe = [arg |-> <<>>, done |-> FALSE, out |-> <<>>]

NextElapsed ==
    \/ \E val \in {<<>>, <<1>>} : CellEdit(0, 0, val)
    \/ ClearGuess(1)
    \/ SetCurrGuess(1)
    \/ Undo
    \/ Redo
    \/ AddGuess
    \/ DeleteGuess(3)
    \/ AddGroup
    \/ DeleteGroup(0)
    \/ ChooseCells(0)
    \/ SelectCell(0, 0)
    \/ DeselectAll
    \/ Confirm
    \/ ClearGroups
    \/ DefaultBoard
    \/ \E d \in DimChoices : SetDimensions(d[1], d[2])
    \/ \E type \in {"x", "12x12", "other"} : SetType(type)
    \/ \E f \in 1 .. Len(Files) : Load(f)
    \/ LoadThen
    \/ Validate
    \/ Tick
    \/ Focus
    \/ Blur

SpecElapsed == InitElapsed /\ [][NextElapsed]_vars

\* typing, switching between Default and Other, and the Validate button
InitOther ==
    /\ firstRender(MaxOtherEvents)
    /\ probe = [arg |-> <<>>, done |-> FALSE, out |-> <<>>]

NextOther ==
    \/ \E cell \in EditCells, val \in {<<>>, <<1>>} : CellEdit(cell[1], cell[2], val)
    \/ \E type \in {"other", "default"} : SetType(type)
    \/ Validate

SpecOther == InitOther /\ [][NextOther]_vars

-----------------------------------------------------------------------------
(* Functions applied on their own *)

\* the document stays as first rendered while a function is applied
Untouched ==
    UNCHANGED <<config, heap, currGuess, chooseCells, selectedCells,
                choosingForGroup, validationState, timerStarted, inFocus,
                undoHistory, undoIndex, loading, mounted, budget, lastOp,
                before, lastArg>>

\* versions of the files upgraded, in tenths; 0 stands for no version field
FileVersions == {0, 10, 11, 12, 13, 14, 15}
\* fields a file may lack
FileFields == {"cells", "groups", "guesses", "type"}

\* the guess styles of a file of version v: files older than 1.2 name their
\* colours, files older than 1.4 have no editable field
fileStyle(v, name, hex, isSmall, editable) ==
    IF v < 14 THEN [color |-> IF v < 12 THEN name ELSE hex, isSmall |-> isSmall]
    ELSE [color |-> hex, isSmall |-> isSmall, editable |-> editable]
fileStyles(v, n) ==
    SubSeq(<<fileStyle(v, "black", "#ffffff", FALSE, FALSE),
             fileStyle(v, "red", "#ff0000", FALSE, TRUE),
             fileStyle(v, "blue", "#0000ff", FALSE, TRUE),
             fileStyle(v, "transparent", "#00ff00", TRUE, TRUE)>>, 1, n)

\* a cell of a file: files older than 1.1 hold isGuess, later ones a guess index
fileCell(v, val, mark) ==
    IF v < 11 THEN [val |-> val, isGuess |-> mark > 0, group |-> 0]
    ELSE [val |-> val, guess |-> mark, group |-> 0]

\* the parsed text of a file of version v with a row of two cells, n guess
\* styles and the fields its version writes, but for the field lacks names
fileDoc(v, a, b, n, lacks) ==
    LET all == [version |-> v, dimensions |-> <<1, 2>>,
                cells |-> [r \in {0} |-> [c \in {0, 1} |->
                              IF c = 0 THEN fileCell(v, <<1>>, a)
                              ELSE fileCell(v, <<2>>, b)]],
                groups |-> <<IF v < 12 THEN "black" ELSE "#000000">>,
                guesses |-> fileStyles(v, n),
                type |-> "default", elapsed |-> 7, fileName |-> "file"]
        written == {"dimensions", "cells", "groups", "fileName"}
                   \cup (IF v = 0 THEN {} ELSE {"version"})
                   \cup (IF v = 0 \/ v = 10 THEN {} ELSE {"guesses"})
                   \cup (IF v >= 13 THEN {"type"} ELSE {})
                   \cup (IF v >= 15 THEN {"elapsed"} ELSE {})
    IN  [f \in written \ {lacks} |-> all[f]]

UpgradeInputs ==
    {fileDoc(v, a, b, n, lacks) :
        v \in FileVersions, a \in {-1, 1, 2, 3}, b \in {0, 2},
        n \in 1 .. MaxGuesses, lacks \in FileFields \cup {"none"}}

ApplyUpgrade ==
    /\ ~probe.done
    /\ probe' = [probe EXCEPT !.done = TRUE, !.out = upgradeRun(probe.arg)]
    /\ Untouched

InitUpgrade ==
    /\ firstRender(0)
    /\ probe \in [arg : UpgradeInputs, done : {FALSE}, out : {<<>>}]

NextUpgrade == ApplyUpgrade

SpecUpgrade == InitUpgrade /\ [][NextUpgrade]_vars

\* boards and group sizes handed to getGroup: <<height, width, gHeight, gWidth>>
GroupInputs ==
    {a \in (1 .. MaxSide) \X (1 .. MaxSide) \X (1 .. MaxSide) \X (1 .. MaxSide) :
        a[3] <= a[1] /\ a[4] <= a[2]}

\* getGroup of every cell of a board
groupOfCells(a) ==
    [r \in 0 .. (a[1] - 1) |->
        [c \in 0 .. (a[2] - 1) |-> getGroup(r, c, a[3], a[4], <<a[1], a[2]>>)]]

ApplyGetGroup ==
    /\ ~probe.done
    /\ probe' = [probe EXCEPT !.done = TRUE, !.out = groupOfCells(probe.arg)]
    /\ Untouched

InitGetGroup ==
    /\ firstRender(0)
    /\ probe \in [arg : GroupInputs, done : {FALSE}, out : {<<>>}]

NextGetGroup == ApplyGetGroup

SpecGetGroup == InitGetGroup /\ [][NextGetGroup]_vars

\* the variants whose groups are boxes of one size, and a cell of their board
RegularTypes == {"default", "12x12", "16x16"}
BoxInputs ==
    {a \in RegularTypes \X (0 .. (MaxBoxSide - 1)) \X (0 .. (MaxBoxSide - 1)) :
        a[2] < sideLengthOf(a[1]) /\ a[3] < sideLengthOf(a[1])}

\* cellGroups of defaultValidate on the board of each variant
validationBoxes ==
    [type \in RegularTypes |->
        SelectSeq(builtPhases[type], LAMBDA part : part.kind = "grp")]

\* the validation boxes that hold cell <<a[2], a[3]>>, the cells of those
\* boxes, the number of boxes that are not empty, and getGroup of the cell
boxesOfCell(a) ==
    LET boxes == validationBoxes[a[1]]
        mine == {n \in 1 .. Len(boxes) : <<a[2], a[3]>> \in Range(boxes[n].cells)}
    IN  [box |-> {n - 1 : n \in mine},
         mates |-> UNION {Range(boxes[n].cells) : n \in mine},
         nonEmpty |-> Cardinality({n \in 1 .. Len(boxes) : boxes[n].cells # <<>>}),
         group |-> getGroup(a[2], a[3], groupsOf(a[1])[1], groupsOf(a[1])[2],
                            <<sideLengthOf(a[1]), sideLengthOf(a[1])>>)]

ApplyBoxes ==
    /\ ~probe.done
    /\ probe' = [probe EXCEPT !.done = TRUE, !.out = boxesOfCell(probe.arg)]
    /\ Untouched

InitBoxes ==
    /\ firstRender(0)
    /\ probe \in [arg : BoxInputs, done : {FALSE}, out : {<<>>}]

NextBoxes == ApplyBoxes

SpecBoxes == InitBoxes /\ [][NextBoxes]_vars

\* cells of a partition handed to allUnique: blank or one of two values,
\* untouched (-1), given (0) or a small guess (2)
RegionCells == [val : {<<>>, <<1>>, <<2>>}, guess : {-1, 0, 2}]
RegionInputs == UNION {[1 .. n -> RegionCells] : n \in 0 .. MaxRegion}

\* the partition as one row of a grid, and the list of its cells
regionGrid(cells) ==
    [r \in {0} |-> [cc \in 0 .. (Len(cells) - 1) |->
        [newCell(0) EXCEPT !.val = cells[cc + 1].val, !.guess = cells[cc + 1].guess]]]
regionList(cells) == [i \in 1 .. Len(cells) |-> <<0, i - 1>>]

\* allUnique(cellList): what it returns and the cells it sets error on
allUniqueOut(isUnique, cellList) ==
    [isUnique |-> isUnique,
     flagged |-> IF isUnique THEN {} ELSE Range(cellList)]

ApplyAllUnique ==
    /\ ~probe.done
    /\ probe' = [probe EXCEPT
                    !.done = TRUE,
                    !.out = allUniqueOut(allUnique(config, regionGrid(probe.arg),
                                                   regionList(probe.arg)),
                                         regionList(probe.arg))]
    /\ Untouched

InitAllUnique ==
    /\ firstRender(0)
    /\ probe \in [arg : RegionInputs, done : {FALSE}, out : {<<>>}]

NextAllUnique == ApplyAllUnique

SpecAllUnique == InitAllUnique /\ [][NextAllUnique]_vars

-----------------------------------------------------------------------------
(* Properties of undo and redo *)

\* the last event was an edit that added a record to the log
RecordedEdit ==
    /\ lastOp \in {"cellValCallback", "clearGuess"}
    /\ undoIndex = before[1] + 1

\* C1: calling undo immediately after any recorded edit (a cell edit or a
\* bulk clear) restores the value and the guess index of every cell to what
\* they were before that edit.
C1_UndoRestoresEdit ==
    [][(RecordedEdit' /\ mounted')
          => View(cellsOf(undo(S').s)) = View(live)]_vars

\* C2: in every reachable state whose cursor is at least 0, undo followed
\* immediately by redo leaves the value and the guess index of every cell as
\* they were before the undo, also when later edits were applied on top of
\* the record and undone.
C2_UndoRedoRoundTrip ==
    (mounted /\ undoIndex >= 0) =>
        LET u == undo(S)
        IN  (~u.threw /\ renders(u.s)) =>
                View(cellsOf(redo(u.s).s)) = View(live)

\* C3: after one or more undos followed by a new recorded edit the log holds
\* no record beyond the cursor, and a redo that follows changes neither the
\* document nor the cursor.
C3_EditDropsRedoTail ==
    RecordedEdit =>
        /\ undoIndex = Len(undoHistory) - 1
        /\ redo(S).s.config = config
        /\ redo(S).s.heap = heap
        /\ redo(S).s.undoIndex = undoIndex

\* a recorded edit made while records were waiting to be redone
C3_Witness ==
    /\ RecordedEdit
    /\ before[1] < before[2] - 1
    /\ Len(undoHistory) = undoIndex + 1
    /\ mounted

\* C5: undo with the cursor at -1, and redo with the cursor at the last
\* record or with an empty log, change nothing -- document, log, cursor and
\* validation state stay as they are -- and signal no failure.
C5_UndoRedoNoOps ==
    /\ undoIndex = -1 => undo(S) = Done(S)
    /\ undoIndex >= Len(undoHistory) - 1 => redo(S) = Done(S)

\* an undo handled with the cursor at -1 under a log that holds records
C5_Witness ==
    /\ lastOp = "undo"
    /\ before[1] = -1
    /\ Len(undoHistory) > 0
    /\ undoIndex = -1

\* C4: the cursor never leaves the log: -1 <= cursor <= length - 1 in every
\* state reached by edits, bulk clears, undo, redo, variant changes and loads.
C4_CursorInLog ==
    /\ undoIndex >= -1
    /\ undoIndex <= Len(undoHistory) - 1

\* a redo moved the cursor onto the last record of the log
C4_Witness ==
    /\ lastOp = "redo"
    /\ undoIndex = before[1] + 1
    /\ undoIndex = Len(undoHistory) - 1

-----------------------------------------------------------------------------
(* Properties of variants, files and dimensions *)

\* C6: after setType(t), for any t, and after any completed load the log is
\* empty and the cursor is -1.
C6_ResetEmptiesLog ==
    lastOp \in {"setType", "loadThen"} =>
        /\ undoHistory = <<>>
        /\ undoIndex = -1

\* a variant was chosen while the log held records
C6_Witness ==
    /\ lastOp = "setType"
    /\ before[2] > 0
    /\ undoHistory = <<>>
    /\ undoIndex = -1

\* C7: the cell grid always has dimensions.height rows of dimensions.width
\* cells, whatever set-dimensions, set-variant, edits, clears, undo and redo
\* are applied; undo and redo after a change of dimensions do not bring back
\* a grid of the old size.
C7_GridMatchesDimensions ==
    /\ Height(live) = config.dimensions[1]
    /\ Width(live) = config.dimensions[2]

-----------------------------------------------------------------------------
(* Properties of groups and guesses *)

\* C8: the group index g of every cell satisfies 0 <= g < number of groups,
\* whatever add-group, delete-group (of the only remaining group too),
\* choose-cells confirm, set-dimensions and set-variant are applied.
C8_GroupIndicesValid ==
    \A p \in Coords(live) :
        /\ live[p[1]][p[2]].group >= 0
        /\ live[p[1]][p[2]].group < Len(config.groups)

\* C9: the guess index of every cell is -1 or the index of a guess style,
\* whatever edits, add-guess, delete-guess, clears, undo and redo are applied;
\* undo or redo of a bulk record taken before a guess style was deleted does
\* not bring back an index past the last style.
C9_GuessIndicesValid ==
    \A p \in Coords(live) :
        \/ live[p[1]][p[2]].guess = -1
        \/ /\ live[p[1]][p[2]].guess >= 0
           /\ live[p[1]][p[2]].guess < Len(config.guesses)

\* the groups and the group of every cell that C10 expects of deleteGroup(i)
C10_Expected(i, d) ==
    /\ Len(d.config.groups) = Len(config.groups) - 1
    /\ \A p \in Coords(live) :
          cellsOf(d)[p[1]][p[2]].group =
              IF live[p[1]][p[2]].group >= i
              THEN MaxOf(0, live[p[1]][p[2]].group - 1)
              ELSE live[p[1]][p[2]].group

\* C10: deleteGroup(i) on n groups leaves n - 1 groups, moves every cell of a
\* group at or above i to max(0, index - 1) and leaves the cells of groups
\* below i alone: deleting index 2 of 5 moves the cells of group 4 to group 3.
C10_DeleteGroupShifts ==
    \A i \in 0 .. (Len(config.groups) - 1) :
        C10_Expected(i, deleteGroup(S, i).s)

\* index 2 of 5 groups was deleted and cells are in group 3, the last one
C10_Witness ==
    /\ lastOp = "deleteGroup"
    /\ lastArg = 2
    /\ Len(config.groups) = 4
    /\ \E p \in Coords(live) : live[p[1]][p[2]].group = 3

-----------------------------------------------------------------------------
(* Properties of getGroup *)

\* the cells of the gHeight x gWidth rectangle number k, counted row by row
Rectangle(a, k) ==
    LET numCols == a[2] \div a[4]
    IN  {rc \in (0 .. (a[1] - 1)) \X (0 .. (a[2] - 1)) :
            /\ rc[1] \div a[3] = k \div numCols
            /\ rc[2] \div a[4] = k % numCols}

\* C11: where gHeight divides the height and gWidth the width, getGroup
\* numbers the cells 0 .. count-1 with count = (height/gHeight) *
\* (width/gWidth), and the cells numbered k are exactly the k-th gHeight x
\* gWidth rectangle in row-major order
C11_GetGroupPartitions ==
    (probe # <<>> /\ probe.done /\ probe.arg[1] % probe.arg[3] = 0
                  /\ probe.arg[2] % probe.arg[4] = 0) =>
        LET a == probe.arg
            count == (a[1] \div a[3]) * (a[2] \div a[4])
            all == (0 .. (a[1] - 1)) \X (0 .. (a[2] - 1))
        IN  /\ {probe.out[rc[1]][rc[2]] : rc \in all} = 0 .. (count - 1)
            /\ \A k \in 0 .. (count - 1) :
                   /\ {rc \in all : probe.out[rc[1]][rc[2]] = k} = Rectangle(a, k)
                   /\ Cardinality(Rectangle(a, k)) = a[3] * a[4]

\* a 4 x 6 board cut into 2 x 3 groups has been numbered
C11_Witness ==
    probe # <<>> /\ probe.done /\ probe.arg = <<4, 6, 2, 3>>

-----------------------------------------------------------------------------
(* Properties of allUnique *)

\* cell i of the partition holds a small guess under the guess styles in use
SmallAt(i) == probe.arg[i].guess # -1 /\ config.guesses[probe.arg[i].guess + 1].isSmall

\* C12: allUnique reports a conflict exactly when two cells of the partition
\* that are no small guesses hold the same non-empty value; blank cells and
\* small guesses clash neither with each other nor with a filled cell
C12_ConflictIffRepeatedValue ==
    (probe # <<>> /\ probe.done) =>
        (~probe.out.isUnique <=>
            \E i, j \in 1 .. Len(probe.arg) :
                /\ i < j
                /\ ~SmallAt(i) /\ ~SmallAt(j)
                /\ probe.arg[i].val # <<>>
                /\ probe.arg[i].val = probe.arg[j].val)

\* a small 1 next to two given 1s has been reported as a conflict
C12_Witness ==
    /\ probe # <<>> /\ probe.done
    /\ probe.arg = <<[val |-> <<1>>, guess |-> 2], [val |-> <<1>>, guess |-> 0],
                     [val |-> <<1>>, guess |-> 0]>>
    /\ ~probe.out.isUnique

\* C13: a partition whose cells are all small guesses but at most one is
\* reported unique and none of its cells is flagged, whatever the small
\* cells contain
C13_SmallGuessesNeverConflict ==
    (probe # <<>> /\ probe.done
     /\ Cardinality({i \in 1 .. Len(probe.arg) : ~SmallAt(i)}) <= 1) =>
        (probe.out.isUnique /\ probe.out.flagged = {})

\* two small 1s next to a given 1 have been found unique
C13_Witness ==
    /\ probe # <<>> /\ probe.done
    /\ probe.arg = <<[val |-> <<1>>, guess |-> 2], [val |-> <<1>>, guess |-> 2],
                     [val |-> <<1>>, guess |-> 0]>>
    /\ probe.out.isUnique /\ probe.out.flagged = {}

-----------------------------------------------------------------------------
(* Properties of validate *)

\* the Validate button has been pressed on a board of the family
Validated == probe # <<>> /\ probe.done /\ lastOp = "validate"

\* where the regions of a variant begin, their side and the sides of a box
AnchorsOf(type) ==
    IF type = "samurai"
    THEN {<<0, 0>>, <<0, 12>>, <<6, 6>>, <<12, 0>>, <<12, 12>>}
    ELSE {<<0, 0>>}
SideOf(type) == IF type = "12x12" THEN 12 ELSE IF type = "16x16" THEN 16 ELSE 9
BoxOf(type) == IF type = "12x12" THEN <<3, 4>>
               ELSE IF type = "16x16" THEN <<4, 4>> ELSE <<3, 3>>

\* rows, columns and boxes of the region anchored at a, and the diagonals
RowsOf(type, a) ==
    {{<<a[1] + i, a[2] + j>> : j \in 0 .. (SideOf(type) - 1)} :
     i \in 0 .. (SideOf(type) - 1)}
ColsOf(type, a) ==
    {{<<a[1] + i, a[2] + j>> : i \in 0 .. (SideOf(type) - 1)} :
     j \in 0 .. (SideOf(type) - 1)}
BoxesOf(type, a) ==
    IF type = "squiggly" THEN {}
    ELSE {{<<a[1] + b[1] * BoxOf(type)[1] + i, a[2] + b[2] * BoxOf(type)[2] + j>> :
              i \in 0 .. (BoxOf(type)[1] - 1), j \in 0 .. (BoxOf(type)[2] - 1)} :
          b \in (0 .. ((SideOf(type) \div BoxOf(type)[1]) - 1))
                 \X (0 .. ((SideOf(type) \div BoxOf(type)[2]) - 1))}
DiagonalsOf(type) ==
    IF type = "x"
    THEN {{<<i, i>> : i \in 0 .. 8}, {<<i, 8 - i>> : i \in 0 .. 8}}
    ELSE {}

\* the partitions the geometry of each variant puts under the uniqueness rule
GeometryOf ==
    [type \in SUDOKU_TYPES \ {"other"} |->
        UNION {RowsOf(type, a) \cup ColsOf(type, a) \cup BoxesOf(type, a) :
               a \in AnchorsOf(type)}
        \cup DiagonalsOf(type)]

\* the groups of a Squiggly board
DrawnGroups(g, type) ==
    IF type = "squiggly"
    THEN {{p \in Coords(g) : g[p[1]][p[2]].group = k} :
          k \in 0 .. (Len(config.groups) - 1)}
    ELSE {}

\* every partition of the document under the uniqueness rule, as far as
\* the grid reaches
PartitionsOf(g, type) ==
    ({{p \in P : InGrid(g, p[1], p[2])} : P \in GeometryOf[type]}
     \cup DrawnGroups(g, type)) \ {{}}

\* the cells of P that hold a value and are no small guess
Counted(g, P) ==
    {p \in P : g[p[1]][p[2]].val # <<>> /\ ~isSmallGuess(config, g[p[1]][p[2]])}

\* two cells of P that are no small guesses hold the same non-empty value
Repeated(g, F) == \E p, q \in F : p # q /\ g[p[1]][p[2]].val = g[q[1]][q[2]].val
Conflict(g, P) == Repeated(g, Counted(g, P))

Flagged(g) == {p \in Coords(g) : g[p[1]][p[2]].error}

\* C14: after a validation pass on a board whose variant is not Other the
\* flagged cells are exactly the members of the partitions (rows, columns,
\* boxes, diagonals of X) that contain a conflict
C14_FlaggedIffInConflict ==
    (Validated /\ config.type # "other") =>
        Flagged(live) = UNION {P \in PartitionsOf(live, config.type) : Conflict(live, P)}

\* on the boards the variants build the flags are those of the partitions in conflict
FlagsOnBuiltBoards ==
    (Validated /\ probe.arg.kind # "2x3") =>
        Flagged(live) = UNION {P \in PartitionsOf(live, config.type) : Conflict(live, P)}

\* every row, column and 3 x 3 box of the 9 x 9 grid g holds each of 1 .. 9
\* once, in cells that are no small guesses
IsSolution(g) ==
    /\ Height(g) = 9 /\ Width(g) = 9
    /\ \A P \in GeometryOf["default"] :
           {g[p[1]][p[2]].val : p \in Counted(g, P)} = {<<k>> : k \in 1 .. 9}

\* the board is a solution but for cell p, which repeats a value of its row
OneCellRepeats(g, p) ==
    /\ IsSolution([g EXCEPT ![p[1]][p[2]].val = solutionAt(p[1], p[2], 3, 3)])
    /\ ~isSmallGuess(config, g[p[1]][p[2]])
    /\ g[p[1]][p[2]].val # solutionAt(p[1], p[2], 3, 3)
    /\ \E c \in 0 .. 8 : c # p[2] /\ g[p[1]][c].val = g[p[1]][p[2]].val

\* C15: a 9 x 9 Default board that is a solution without small guesses is
\* reported valid and complete, and with one cell changed to the value of
\* another cell of its row it is reported invalid
C15_SolutionValidThenInvalid ==
    (Validated /\ config.type = "default") =>
        /\ IsSolution(live) =>
               (validationState = "valid" /\ probe.out.alerted)
        /\ (\E p \in PlaceCells("default") : OneCellRepeats(live, p)) =>
               (validationState = "error" /\ ~probe.out.alerted)

\* the solution with the value of [0][0] typed into [0][4] has been validated
C15_Witness ==
    /\ Validated /\ config.type = "default"
    /\ OneCellRepeats(live, <<0, 4>>)
    /\ live[0][4].val = live[0][0].val
    /\ validationState = "error"

\* every cell of the region anchored at a holds a value and is no small guess
RegionFilled(g, type, a) ==
    \A i, j \in 0 .. (SideOf(type) - 1) :
        InGrid(g, a[1] + i, a[2] + j) =>
            /\ g[a[1] + i][a[2] + j].val # <<>>
            /\ ~isSmallGuess(config, g[a[1] + i][a[2] + j])

\* C16: validation reports the board complete exactly when every cell of
\* every validated region holds a value and is no small guess, and raises
\* the solved signal only when the board is valid and complete
C16_FilledAndSolvedSignal ==
    (Validated /\ probe.out.ran) =>
        /\ probe.out.isFilled <=>
               \A a \in AnchorsOf(config.type) : RegionFilled(live, config.type, a)
        /\ probe.out.alerted =>
               /\ \A a \in AnchorsOf(config.type) : RegionFilled(live, config.type, a)
               /\ \A P \in PartitionsOf(live, config.type) : ~Conflict(live, P)
               /\ validationState = "valid"
        /\ ~probe.out.alerted => timerStarted

\* a solved Default board with a small guess in its middle cell has been
\* validated: valid, not complete, no solved signal
C16_Witness ==
    /\ Validated /\ probe.out.ran
    /\ probe.arg.kind = "default" /\ probe.arg.solved
    /\ probe.arg.placed = (<<4, 4>> :> "small")
    /\ probe.out.isValid /\ ~probe.out.isFilled /\ ~probe.out.alerted

\* a solved Samurai board has been validated and the solved signal raised
SolvedSamurai ==
    /\ Validated /\ config.type = "samurai"
    /\ probe.out.alerted /\ ~timerStarted

\* C17: whenever validate has run on a document of variant Other, no cell
\* is flagged, no errors are shown and no solved signal is raised
C17_OtherIsAllClear ==
    (lastOp \in {"validate", "cellValCallback"} /\ config.type = "other") =>
        /\ Flagged(live) = {}
        /\ validationState # "error"
        /\ (probe.done => ~probe.out.alerted)

\* C18: on an X board a value repeated on either diagonal, in cells that
\* are no small guesses, makes the board invalid and flags the nine cells
\* of that diagonal, whatever the rows, columns, boxes and the other
\* diagonal hold
C18_DiagonalsChecked ==
    (Validated /\ config.type = "x") =>
        \A D \in {{<<i, i>> : i \in 0 .. 8}, {<<i, 8 - i>> : i \in 0 .. 8}} :
            Conflict(live, D) =>
                /\ Cardinality(D) = 9
                /\ D \subseteq Flagged(live)
                /\ validationState = "error"
                /\ ~probe.out.isValid

\* an X board with the same value in [0][8] and [4][4] and nothing else has
\* been validated: the second diagonal alone is flagged
C18_Witness ==
    /\ Validated /\ config.type = "x"
    /\ ~probe.arg.solved
    /\ probe.arg.placed = (<<0, 8>> :> "one" @@ <<4, 4>> :> "one")
    /\ Flagged(live) = {<<i, 8 - i>> : i \in 0 .. 8}
    /\ validationState = "error"

\* two cells of one board row or column that share no region hold the same
\* value, and no partition of any region is in conflict
FarApartOnly(g) ==
    /\ \E p, q \in Counted(g, Coords(g)) :
           /\ p # q
           /\ p[1] = q[1] \/ p[2] = q[2]
           /\ g[p[1]][p[2]].val = g[q[1]][q[2]].val
    /\ \A P \in GeometryOf["samurai"] : ~Conflict(g, P)

\* C19: a 21 x 21 Samurai board is reported valid exactly when no row,
\* column or 3 x 3 box inside any of the five regions anchored at (0,0),
\* (0,12), (6,6), (12,0), (12,12) is in conflict, and complete exactly when
\* all five are filled; equal values of one board row or column that share
\* no region are no conflict
C19_SamuraiRegions ==
    (Validated /\ config.type = "samurai" /\ Height(live) = 21 /\ Width(live) = 21) =>
        /\ probe.out.isValid <=>
               \A P \in GeometryOf["samurai"] : ~Conflict(live, P)
        /\ (validationState = "valid") <=> probe.out.isValid
        /\ probe.out.isFilled <=>
               \A a \in AnchorsOf("samurai") : RegionFilled(live, "samurai", a)
        /\ FarApartOnly(live) => (probe.out.isValid /\ Flagged(live) = {})

\* a Samurai board with the same value in [20][12] and [20][20] alone has
\* been validated: the conflict of the last region is reported
C19_Witness ==
    /\ Validated /\ config.type = "samurai"
    /\ ~probe.arg.solved
    /\ probe.arg.placed = (<<20, 12>> :> "one" @@ <<20, 20>> :> "one")
    /\ Flagged(live) = {<<20, c>> : c \in 12 .. 20}
    /\ validationState = "error"

\* a Samurai board with the same value in [0][0] and [0][12] alone has been
\* validated and found valid
FarApartValid ==
    /\ Validated /\ config.type = "samurai"
    /\ FarApartOnly(live)
    /\ probe.arg.placed = (<<0, 0>> :> "one" @@ <<0, 12>> :> "one")
    /\ validationState = "valid"

\* group index of every cell of a grid
GroupsOf(g) == [r \in DOMAIN g |-> [c \in DOMAIN g[r] |-> g[r][c].group]]

\* C20: a validation changes no value, guess index or group index, and a
\* second validation right after a first leaves the flags of every cell
\* and the verdict as the first left them
C20_ValidateIdempotent ==
    [][(lastOp' = "validate") =>
          /\ View(live') = View(live)
          /\ GroupsOf(live') = GroupsOf(live)
          /\ (lastOp = "validate") =>
                 /\ Flagged(live') = Flagged(live)
                 /\ validationState' = validationState
                 /\ timerStarted' = timerStarted
                 /\ probe'.out = probe.out]_vars

\* a board with a conflict has been validated twice in a row
C20_Witness ==
    /\ Validated
    /\ budget <= MaxValidations - 2
    /\ Flagged(live) # {}
    /\ validationState = "error"

-----------------------------------------------------------------------------
(* Properties of the timer *)

\* the last event ran validate on the document
Revalidated ==
    \/ lastOp \in {"cellValCallback", "clearGuess", "validate"}
    \/ lastOp = "undo" /\ before[1] > -1
    \/ lastOp = "redo" /\ before[1] < before[2] - 1

\* no partition of the board is in conflict and every region is filled
ValidAndComplete(g, type) ==
    /\ \A P \in PartitionsOf(g, type) : ~Conflict(g, P)
    /\ \A a \in AnchorsOf(type) : RegionFilled(g, type, a)

\* C21: after an event whose validation pass found the board valid and
\* complete the timer is inactive, also when the event itself started it
C21_SolvedStopsTimer ==
    (Revalidated /\ config.type # "other" /\ Height(live) = 9 /\ Width(live) = 9
     /\ ValidAndComplete(live, config.type)) => ~timerStarted

\* the last value was typed in guess style 1 with the timer stopped: the
\* edit started the timer, its validation found the board solved
C21_Witness ==
    /\ lastOp = "cellValCallback" /\ budget = MaxPlayEvents - 1
    /\ probe.arg.placed = (PlayCell :> "blank")
    /\ ~probe.arg.timer /\ currGuess = 1
    /\ ValidAndComplete(live, config.type)
    /\ ~timerStarted

\* a step changes elapsed only by a tick, which adds 1 with focus and timer on
ElapsedStep ==
    /\ (lastOp' = "tick") =>
           (inFocus /\ timerStarted /\ config'.elapsed = config.elapsed + 1)
    /\ (lastOp' # "tick") => (config'.elapsed = config.elapsed)

\* C22: a tick fires only where the window has the focus and the timer is
\* active, and adds exactly 1 to elapsed; no other event of play changes
\* elapsed; once the focus is back with the timer active a tick can fire
C22_TickOnlyFocusedAndActive ==
    /\ [][ElapsedStep]_vars
    /\ []((lastOp = "focus" /\ timerStarted /\ budget > 0) => ENABLED Tick)

\* the timer has ticked after the window lost and regained the focus
C22_Witness ==
    /\ lastOp = "tick" /\ budget = 0
    /\ before = <<-1, 0>>
    /\ config.elapsed = 1
    /\ inFocus /\ timerStarted

-----------------------------------------------------------------------------
(* Properties of upgrade *)

\* upgrade has been applied to a file and has returned a document
Upgraded == probe # <<>> /\ probe.done /\ ~probe.out.threw

\* C23: upgrade applied to what upgrade returned changes nothing, and
\* upgrade changes no field of a document that is at version 1.5 already
C23_UpgradeIdempotent ==
    Upgraded =>
        /\ upgradeRun(probe.out.doc) = [doc |-> probe.out.doc, threw |-> FALSE]
        /\ (versionOf(probe.arg) = CURR_VER) => (probe.out.doc = probe.arg)

\* a file of version 1.4 with four guess styles has been upgraded
C23_Witness ==
    /\ Upgraded
    /\ versionOf(probe.arg) = 14
    /\ Len(probe.arg.guesses) = 4
    /\ probe.out.doc # probe.arg
    /\ upgrade(probe.out.doc) = probe.out.doc

\* C24: a file of version 1.0, or with no version, comes out at version
\* 1.5 with guess index 1 where isGuess was true and 0 where it was
\* false, no isGuess left, and the three guess styles blank non-editable,
\* normal editable, small editable
C24_LegacyFlagsBecomeIndices ==
    (Upgraded /\ versionOf(probe.arg) = 10) =>
        /\ probe.out.doc.version = CURR_VER
        /\ \A c \in {0, 1} :
               /\ ~Has(probe.out.doc.cells[0][c], "isGuess")
               /\ probe.out.doc.cells[0][c].guess =
                      (IF probe.arg.cells[0][c].isGuess THEN 1 ELSE 0)
               /\ probe.out.doc.cells[0][c].val = probe.arg.cells[0][c].val
        /\ Len(probe.out.doc.guesses) = 3
        /\ \A k \in 1 .. 3 :
               /\ probe.out.doc.guesses[k].isSmall = (k = 3)
               /\ probe.out.doc.guesses[k].editable = (k # 1)
        /\ probe.out.doc.guesses[1].color = "#ffffff"

\* a file with no version field, isGuess set in its first cell and not in
\* its second, has been upgraded
C24_Witness ==
    /\ Upgraded
    /\ ~Has(probe.arg, "version")
    /\ probe.arg.cells[0][0].isGuess /\ ~probe.arg.cells[0][1].isGuess
    /\ probe.out.doc.cells[0][0].guess = 1

\* the file holds at least two guess styles and every cell a guess index
\* that is -1 or the index of one of them
ValidGuessRefs(doc) ==
    /\ Has(doc, "guesses") /\ Has(doc, "cells")
    /\ Len(doc.guesses) >= 2
    /\ \A c \in {0, 1} :
           /\ Has(doc.cells[0][c], "guess")
           /\ doc.cells[0][c].guess \in -1 .. (Len(doc.guesses) - 1)

\* style new of the upgraded document is style old of the file
SameStyle(old, new) ==
    /\ new.isSmall = old.isSmall
    /\ new.color = (IF versionOf(probe.arg) < 12 THEN getColor(old.color) ELSE old.color)

\* C25: for a file below version 1.5 with at least two guess styles and
\* valid guess indices, the small style sits at index 2 afterwards, every
\* index >= 2 has moved up by one to the style it named before, every
\* index < 2 is as it was, all indices are valid and elapsed is 0
C25_ShiftKeepsReferences ==
    (Upgraded /\ versionOf(probe.arg) < CURR_VER /\ ValidGuessRefs(probe.arg)) =>
        /\ probe.out.doc.guesses[3] = smallGuess
        /\ Len(probe.out.doc.guesses) = Len(probe.arg.guesses) + 1
        /\ probe.out.doc.elapsed = 0
        /\ \A c \in {0, 1} :
               LET old == probe.arg.cells[0][c].guess
                   new == probe.out.doc.cells[0][c].guess
               IN  /\ new \in -1 .. (Len(probe.out.doc.guesses) - 1)
                   /\ old < 2 => new = old
                   /\ old >= 2 =>
                          /\ new = old + 1
                          /\ SameStyle(probe.arg.guesses[old + 1],
                                       probe.out.doc.guesses[new + 1])

\* a file of version 1.3 with four styles and cells of guess 3 and 2 has
\* been upgraded
C25_Witness ==
    /\ Upgraded
    /\ versionOf(probe.arg) = 13 /\ ValidGuessRefs(probe.arg)
    /\ probe.arg.cells[0][0].guess = 3 /\ probe.arg.cells[0][1].guess = 2
    /\ probe.out.doc.cells[0][0].guess = 4 /\ probe.out.doc.cells[0][1].guess = 3

\* C26: upgrade of a file that lacks any of cells, groups, guesses or type
\* returns a document of the current version in which they are filled in
C26_UpgradeNeverFails ==
    (probe # <<>> /\ probe.done) =>
        /\ ~probe.out.threw
        /\ probe.out.doc.version = CURR_VER
        /\ \A f \in FileFields : Has(probe.out.doc, f)

\* the component after the Save button and a load of the file it wrote
Reloaded == loadedFrom(S, save(S)).s

\* C27: the document written by save has no error field in any cell, and
\* after a load of that document no cell is flagged
C27_ErrorFlagsNotSaved ==
    mounted =>
        /\ \A p \in Coords(live) : ~Has(save(S).cells[p[1]][p[2]], "error")
        /\ \A p \in Coords(live) :
               ~Reloaded.heap[Reloaded.config.cells][p[1]][p[2]].error

\* C28: after setType the grid is a fresh grid of the new variant: no cell
\* holds a value, a guess index is set only in the shaded cells of Samurai
\* and a colour only on the diagonals of X
C28_SetTypeReplacesGrid ==
    (mounted /\ lastOp = "setType") =>
        \A p \in Coords(live) :
            LET cell == live[p[1]][p[2]]
            IN  /\ cell.val = <<>>
                /\ cell.guess # -1 => config.type = "samurai"
                /\ cell.color # "" => config.type = "x"

\* C29: in every reachable state undo, redo, an edit of a cell of the grid
\* and validation run to their end, none stopped by a read of a cell, group
\* or guess style that is not there
C29_NoHandlerThrows ==
    mounted =>
        /\ ~undo(S).threw
        /\ ~redo(S).threw
        /\ ~validate(config, heap).threw
        /\ \A p \in EditCells \cap Coords(live), val \in RawTexts :
               Editable(S, p[1], p[2]) => ~cellValCallback(S, p[1], p[2], val).threw

\* the last event was an edit of a cell, a bulk clear, or an undo or redo
\* that had a record to apply
EditedOrRestored == Revalidated /\ lastOp # "validate"

\* C30: after a cell edit, a bulk clear, an undo or a redo on a board whose
\* variant is not Other, the flags are those of the partitions in conflict
\* in the grid the event left, and the verdict tells whether there is one
C30_EventsValidateResult ==
    (mounted /\ EditedOrRestored /\ config.type # "other") =>
        LET inConflict == {P \in PartitionsOf(live, config.type) : Conflict(live, P)}
        IN  /\ Flagged(live) = UNION inConflict
            /\ validationState = (IF inConflict = {} THEN "valid" ELSE "error")

-----------------------------------------------------------------------------
(* Properties of the load of a file *)

\* C31: when the read of a file completes, whatever was edited, undone,
\* redone or ticked since the load began, the document is the upgraded
\* file, the grid is the grid of the file and the undo log is empty with
\* cursor -1
C31_LoadReplacesDocument ==
    (lastOp = "loadThen") =>
        LET doc == upgrade(Files[lastArg])
        IN  /\ [config EXCEPT !.cells = 0] = [doc EXCEPT !.cells = 0]
            /\ live = parsedCells(doc)
            /\ undoHistory = <<>>
            /\ undoIndex = -1
            /\ loading = 0

\* the read that was under way from the start completed as the third event,
\* after two events that left records in the undo log
C31_Witness ==
    /\ lastOp = "loadThen"
    /\ budget = MaxLoadEvents - 3
    /\ before[2] > 0
    /\ undoHistory = <<>>

-----------------------------------------------------------------------------
(* Validation boxes and board geometry *)

\* C32: on the boards of Default, 12 x 12 and 16 x 16 a cell lies in the
\* validation box of another exactly when getGroup with the box size of
\* the variant gives both the same index, and the boxes that are not empty
\* number side * side / (gh * gw)
C32_BoxesAreGetGroup ==
    (probe # <<>> /\ probe.done) =>
        LET type == probe.arg[1]
            side == sideLengthOf(type)
            gh == groupsOf(type)[1]
            gw == groupsOf(type)[2]
        IN  /\ \A r, c \in 0 .. (side - 1) :
                   (<<r, c>> \in probe.out.mates)
                       <=> (getGroup(r, c, gh, gw, <<side, side>>) = probe.out.group)
            /\ probe.out.nonEmpty * (gh * gw) = side * side

\* the boxes of the last row of boxes of a 12 x 12 board have been computed
C32_Witness ==
    /\ probe # <<>> /\ probe.done
    /\ probe.arg = <<"12x12", 11, 5>>
    /\ probe.out.box = {10}
    /\ probe.out.group = 10
    /\ probe.out.nonEmpty = 12

\* the grid is side x side, empty, with n groups and every cell in the box
\* of gh x gw cells it lies in, boxes counted row by row
RegularBoard(side, gh, gw) ==
    /\ config.dimensions = <<side, side>>
    /\ Height(live) = side /\ Width(live) = side
    /\ Len(config.groups) = (side \div gh) * (side \div gw)
    /\ \A p \in Coords(live) :
           LET cell == live[p[1]][p[2]]
           IN  /\ cell.val = <<>>
               /\ cell.group = (p[2] \div gw) + (side \div gw) * (p[1] \div gh)
               /\ cell.group \in 0 .. (Len(config.groups) - 1)

\* C33: after setType to 12 x 12 the board is an empty 12 x 12 grid with
\* 12 groups that are its 3 x 4 boxes, after 16 x 16 an empty 16 x 16 grid
\* with 16 groups that are its 4 x 4 boxes, after Default or X an empty
\* 9 x 9 grid with 9 groups that are its 3 x 3 boxes, and the type is set
C33_SetTypeBuildsBoard ==
    (lastOp = "setType") =>
        /\ config.type = "12x12" => RegularBoard(12, 3, 4)
        /\ config.type = "16x16" => RegularBoard(16, 4, 4)
        /\ config.type \in {"default", "x"} => RegularBoard(9, 3, 3)

\* 12 x 12 was chosen on a board that had been typed into
C33_Witness ==
    /\ lastOp = "setType"
    /\ config.type = "12x12"
    /\ before[2] > 0
    /\ Len(config.groups) = 12
    /\ live[11][11].group = 11

-----------------------------------------------------------------------------
(* Properties of the bulk clear *)

\* what a step that is clearGuess(i) does to the grid and the log
ClearStep ==
    (lastOp' = "clearGuess") =>
        LET i == lastArg'
            rec == undoHistory'[Len(undoHistory')]
        IN  /\ Coords(live') = Coords(live)
            /\ \A p \in Coords(live) :
                   LET old == live[p[1]][p[2]]
                       new == live'[p[1]][p[2]]
                   IN  /\ new.guess # i
                       /\ new.group = old.group
                       /\ old.guess = i => (new.val = <<>> /\ new.guess = -1)
                       /\ old.guess # i => (new.val = old.val /\ new.guess = old.guess)
            /\ undoHistory' = Append(SubSeq(undoHistory, 1, undoIndex + 1), rec)
            /\ undoIndex' = undoIndex + 1
            /\ rec.type = "full"
            /\ heap'[rec.prevCells] = live

\* C34: clearGuess(i) leaves no cell with guess index i, empties the cells
\* that had it and sets their index to -1, keeps value, guess index and group
\* of every other cell, and appends to the log, after the record at the
\* cursor, one full record whose previous snapshot is the grid before
C34_ClearGuessFrame == [][ClearStep]_vars

\* style 1 was cleared on a board with a value in style 1 and one in style
\* 0: the first is gone, the second is there
C34_Witness ==
    /\ lastOp = "clearGuess" /\ lastArg = 1
    /\ undoHistory # <<>>
    /\ LET prev == heap[undoHistory[Len(undoHistory)].prevCells]
       IN  \E p, q \in EditCells :
              /\ prev[p[1]][p[2]].guess = 1 /\ prev[p[1]][p[2]].val # <<>>
              /\ live[p[1]][p[2]].val = <<>> /\ live[p[1]][p[2]].guess = -1
              /\ prev[q[1]][q[2]].guess = 0 /\ prev[q[1]][q[2]].val # <<>>
              /\ live[q[1]][q[2]].val = prev[q[1]][q[2]].val
              /\ live[q[1]][q[2]].guess = 0

-----------------------------------------------------------------------------
(* Properties of cell values *)

Sorted(val) == \A i, j \in 1 .. Len(val) : i < j => val[i] <= val[j]

\* C35: in every state a value of more than one character sits in a cell
\* whose guess style is small, in sorted order; every other cell holds at
\* most one character
C35_LongValuesAreSmall ==
    mounted =>
        \A p \in Coords(live) :
            LET cell == live[p[1]][p[2]]
            IN  Len(cell.val) > 1 =>
                    /\ cell.guess \in 0 .. (Len(config.guesses) - 1)
                    /\ config.guesses[cell.guess + 1].isSmall
                    /\ Sorted(cell.val)

\* C36: in every state currGuess is the index of a guess style of the document
C36_CurrGuessInRange == currGuess \in 0 .. (Len(config.guesses) - 1)

\* C37: in every state a cell that holds a value has a guess index other
\* than -1
C37_ValuesCarryGuess ==
    mounted =>
        \A p \in Coords(live) :
            live[p[1]][p[2]].val # <<>> => live[p[1]][p[2]].guess # -1

-----------------------------------------------------------------------------
(* Properties of the Samurai board *)

\* cell p lies in one of the five regions validate checks on a Samurai board
InSamuraiRegion(p) ==
    \E a \in AnchorsOf("samurai") :
        /\ p[1] \in a[1] .. (a[1] + 8)
        /\ p[2] \in a[2] .. (a[2] + 8)

\* C38: after setType to Samurai the board is 21 x 21 with 3 groups; the
\* cells outside the five validated regions are those of group 2 with guess
\* index 0, and the cells inside a region have group 0 or 1 and guess
\* index -1
C38_SamuraiShadedOutside ==
    (lastOp = "setType" /\ config.type = "samurai") =>
        /\ config.dimensions = <<21, 21>>
        /\ Height(live) = 21 /\ Width(live) = 21
        /\ Len(config.groups) = 3
        /\ \A p \in Coords(live) :
               LET cell == live[p[1]][p[2]]
               IN  /\ (cell.group = 2 /\ cell.guess = 0) <=> ~InSamuraiRegion(p)
                   /\ InSamuraiRegion(p) => (cell.group \in {0, 1} /\ cell.guess = -1)

\* Samurai was chosen on a board that had been typed into; the box above the
\* middle region is shaded, the middle of the board is not
C38_Witness ==
    /\ lastOp = "setType" /\ config.type = "samurai"
    /\ before[2] > 0
    /\ live[4][10].group = 2 /\ live[4][10].guess = 0
    /\ live[10][10].group \in {0, 1} /\ live[10][10].guess = -1

-----------------------------------------------------------------------------
(* Properties of the elapsed total *)

\* a tick adds 1 to elapsed; any other step but the completion of a load
\* leaves it
ElapsedFrame ==
    /\ (lastOp' = "tick") => (config'.elapsed = config.elapsed + 1)
    /\ (lastOp' \notin {"tick", "loadThen"}) => (config'.elapsed = config.elapsed)

\* C39: elapsed is changed only by a tick, which adds 1, or by the
\* completion of a load: focus changes, edits, bulk clears, undo, redo,
\* validation, group and guess style operations, dimension and variant
\* changes leave it as it is
C39_ElapsedOnlyByTickOrLoad == [][ElapsedFrame]_vars

\* the dimensions or the variant were changed, or a group added, on the
\* document of a loaded file, whose elapsed total is still there
C39_Witness ==
    /\ lastOp \in {"setDimensions", "setType", "addGroup", "clearGroups"}
    /\ budget = MaxElapsedEvents - 3
    /\ config.fileName = Files[1].fileName
    /\ config.elapsed = Files[1].elapsed
    /\ config.elapsed > 0

====
